---------------------------- MODULE Spec2Model ----------------------------
(***************************************************************************)
(* A model of the RESP codec of tidwall/resp (resp.go): the Value type and *)
(* its marshaling, the streaming Reader over an io.Reader that delivers    *)
(* its bytes in fragments, and the Writer over an io.Writer that may fail. *)
(*                                                                         *)
(* Bytes are the naturals 0..255 (ASCII codes), byte slices are sequences  *)
(* of bytes with 0-based Go indices kept in p/l/s (buf[i] is buf[i+1]      *)
(* here).  A Go int is a 64-bit two's complement number, kept as four      *)
(* 16-bit limbs (least significant first) so that the wrap-around of       *)
(* readInt's accumulation is the one the machine produces.                 *)
(***************************************************************************)
EXTENDS Integers, Sequences, FiniteSets, TLC

\* ---------------------------------------------------------------- bytes
Plus == 43
Minus == 45
Colon == 58
Dollar == 36
Star == 42
CR == 13
LF == 10
Space == 32
Quote == 34
Digit0 == 48

bufsz == 4096

IsDigit(c) == c >= Digit0 /\ c <= Digit0 + 9

\* ------------------------------------------------- the 64-bit machine int
LimbBase == 65536
HalfLimb == 32768

I64Zero == <<0, 0, 0, 0>>

\* int(n) for a natural below 2^31
I64FromNat(n) == <<n % LimbBase, n \div LimbBase, 0, 0>>

\* (x * m + d) mod 2^64 for small m, d
I64MulAdd(x, m, d) ==
    LET t1 == x[1] * m + d
        t2 == x[2] * m + (t1 \div LimbBase)
        t3 == x[3] * m + (t2 \div LimbBase)
        t4 == x[4] * m + (t3 \div LimbBase)
    IN  <<t1 % LimbBase, t2 % LimbBase, t3 % LimbBase, t4 % LimbBase>>

\* -x mod 2^64 (two's complement)
I64Negate(x) ==
    I64MulAdd(<<LimbBase - 1 - x[1], LimbBase - 1 - x[2],
                LimbBase - 1 - x[3], LimbBase - 1 - x[4]>>, 1, 1)

\* x < 0
I64IsNeg(x) == x[4] >= HalfLimb

\* x > n for a natural n below 2^31 (signed comparison)
I64GtNat(x, n) ==
    /\ ~I64IsNeg(x)
    /\ \/ x[4] > 0
       \/ x[3] > 0
       \/ x[2] > n \div LimbBase
       \/ x[2] = n \div LimbBase /\ x[1] > n % LimbBase

\* the natural a small non-negative x stands for (x below 2^30)
I64ToNat(x) == x[2] * LimbBase + x[1]

\* x \div 10 and x % 10 of an unsigned 64-bit x, by long division
I64DivMod10(x) ==
    LET r4 == x[4]
        r3 == (r4 % 10) * LimbBase + x[3]
        r2 == (r3 % 10) * LimbBase + x[2]
        r1 == (r2 % 10) * LimbBase + x[1]
    IN  [q |-> <<r1 \div 10, r2 \div 10, r3 \div 10, r4 \div 10>>, r |-> r1 % 10]

RECURSIVE FormatUint(_)
\* the decimal digits of an unsigned 64-bit x, no leading zeros
FormatUint(x) ==
    LET dm == I64DivMod10(x)
    IN  IF dm.q = I64Zero THEN <<Digit0 + dm.r>>
        ELSE Append(FormatUint(dm.q), Digit0 + dm.r)

\* strconv.FormatInt(int64(x), 10)
FormatInt(x) ==
    IF I64IsNeg(x) THEN <<Minus>> \o FormatUint(I64Negate(x)) ELSE FormatUint(x)


\* ---------------------------------------------------------------- errors
\* An error value: nil, an io error, an errProtocol or an errors.New.
nil == [kind |-> "nil", msg |-> "", arg |-> 0]
EOF == [kind |-> "io", msg |-> "EOF", arg |-> 0]
ErrUnexpectedEOF == [kind |-> "io", msg |-> "unexpected EOF", arg |-> 0]
errProtocol(m) == [kind |-> "protocol", msg |-> m, arg |-> 0]
\* &errProtocol{"expected '$', got '" + string(c) + "'"}
errExpectedDollar(c) == [kind |-> "protocol", msg |-> "expected '$', got", arg |-> c]
errorsNew(m) == [kind |-> "errors", msg |-> m, arg |-> 0]
IsErrProtocol(e) == e.kind = "protocol"

\* ----------------------------------------------------------------- Value
\* type Value struct {typ; integer; str; array; null}; strNil and arrayNil
\* tell a nil slice from an empty one.
MkValue(typ, integer, str, strNil, array, arrayNil, null) ==
    [typ |-> typ, integer |-> integer, str |-> str, strNil |-> strNil,
     array |-> array, arrayNil |-> arrayNil, null |-> null]

\* var nullValue = Value{null: true}
nullValue == MkValue(0, I64Zero, <<>>, TRUE, <<>>, TRUE, TRUE)

\* Value{typ: typ, str: b}
StrValue(typ, b, isNil) == MkValue(typ, I64Zero, b, isNil, <<>>, TRUE, FALSE)
\* Value{typ: ':', integer: i}
IntValue(i) == MkValue(Colon, i, <<>>, TRUE, <<>>, TRUE, FALSE)
\* Value{typ: typ, null: true}
NullOf(typ) == MkValue(typ, I64Zero, <<>>, TRUE, <<>>, TRUE, TRUE)
\* Value{typ: '*', array: vals}
ArrValue(vals, isNil) == MkValue(Star, I64Zero, <<>>, TRUE, vals, isNil, FALSE)

marshalSimpleRESP(typ, b) == [b |-> <<typ>> \o b \o <<CR, LF>>, err |-> nil]

\* a marshalBulkRESP that writes a null BulkString as an empty one
marshalBulkNoNull(v) ==
    [b |-> <<Dollar>> \o FormatInt(I64FromNat(Len(v.str))) \o <<CR, LF>>
             \o v.str \o <<CR, LF>>,
     err |-> nil]

marshalBulkRESP(v) ==
    IF v.null THEN [b |-> <<Dollar, Minus, Digit0 + 1, CR, LF>>, err |-> nil]
    ELSE [b |-> <<Dollar>> \o FormatInt(I64FromNat(Len(v.str))) \o <<CR, LF>>
                 \o v.str \o <<CR, LF>>,
          err |-> nil]

RECURSIVE marshalAnyRESP(_)
RECURSIVE marshalElems(_, _, _)
\* the loop of marshalArrayRESP from element i on, buf the bytes so far
marshalElems(arr, i, buf) ==
    IF i > Len(arr) THEN [b |-> buf, err |-> nil]
    ELSE LET m == marshalAnyRESP(arr[i])
         IN  IF m.err # nil THEN [b |-> <<>>, err |-> m.err]
             ELSE marshalElems(arr, i + 1, buf \o m.b)

marshalArrayRESP(v) ==
    IF v.null THEN [b |-> <<Star, Minus, Digit0 + 1, CR, LF>>, err |-> nil]
    ELSE marshalElems(v.array, 1,
             <<Star>> \o FormatInt(I64FromNat(Len(v.array))) \o <<CR, LF>>)

\* a marshalAnyRESP that takes every null Value for the null BulkString
marshalAnyNull(v) ==
    CASE v.typ = Minus \/ v.typ = Plus -> marshalSimpleRESP(v.typ, v.str)
      [] v.typ = Colon -> marshalSimpleRESP(v.typ, FormatInt(v.integer))
      [] v.typ = Dollar -> marshalBulkRESP(v)
      [] v.typ = Star -> marshalArrayRESP(v)
      [] OTHER -> IF v.null
                  THEN [b |-> <<Dollar, Minus, Digit0 + 1, CR, LF>>, err |-> nil]
                  ELSE [b |-> <<>>, err |-> errorsNew("unknown resp type encountered")]
marshalAnyRESP(v) ==
    CASE v.typ = Minus \/ v.typ = Plus -> marshalSimpleRESP(v.typ, v.str)
      [] v.typ = Colon -> marshalSimpleRESP(v.typ, FormatInt(v.integer))
      [] v.typ = Dollar -> marshalBulkRESP(v)
      [] v.typ = Star -> marshalArrayRESP(v)
      [] OTHER -> IF v.typ = 0 /\ v.null
                  THEN [b |-> <<Dollar, Minus, Digit0 + 1, CR, LF>>, err |-> nil]
                  ELSE [b |-> <<>>, err |-> errorsNew("unknown resp type encountered")]

\* func (v Value) MarshalRESP() ([]byte, error)
MarshalRESP(v) == marshalAnyRESP(v)

\* func (v Value) String() string; fmt's %v of a []Value is "[" the
\* String() of each element, separated by spaces, "]"
RECURSIVE ValueString(_)
RECURSIVE joinStrings(_, _, _)
joinStrings(arr, i, acc) ==
    IF i > Len(arr) THEN acc
    ELSE joinStrings(arr, i + 1,
                     acc \o (IF i > 1 THEN <<Space>> ELSE <<>>) \o ValueString(arr[i]))
ValueString(v) ==
    CASE v.typ = Dollar -> v.str
      [] v.typ \in {Plus, Minus} -> v.str
      [] v.typ = Colon -> FormatInt(v.integer)
      [] v.typ = Star -> <<91>> \o joinStrings(v.array, 1, <<>>) \o <<93>>
      [] OTHER -> <<>>

\* a Bytes() that never returns nil
valueBytesPresent(v) ==
    IF v.typ \in {Dollar, Plus, Minus} THEN [b |-> v.str, isNil |-> FALSE]
    ELSE [b |-> ValueString(v), isNil |-> FALSE]

\* func (v Value) Bytes() []byte: isNil tells a nil slice from an empty one
ValueBytes(v) ==
    IF v.typ \in {Dollar, Plus, Minus} THEN [b |-> v.str, isNil |-> v.strNil]
    ELSE [b |-> ValueString(v), isNil |-> FALSE]

\* func (v Value) IsNull() bool
IsNull(v) == v.null

\* func (v Value) Array() []Value: isNil tells a nil slice from an empty one
ValueArray(v) ==
    IF v.typ = Star /\ ~v.null THEN [vals |-> v.array, isNil |-> v.arrayNil]
    ELSE [vals |-> <<>>, isNil |-> TRUE]

\* strconv.ParseUint(s, 10, 64) from position i on: un the value so far,
\* err "syntax" at a byte that is no digit, "range" past 2^64 - 1
RECURSIVE parseUintLoop(_, _, _)
parseUintLoop(s, i, un) ==
    IF i > Len(s) THEN [un |-> un, err |-> "nil"]
    ELSE IF ~IsDigit(s[i]) THEN [un |-> I64Zero, err |-> "syntax"]
    ELSE LET d == s[i] - Digit0
             t1 == un[1] * 10 + d
             t2 == un[2] * 10 + (t1 \div LimbBase)
             t3 == un[3] * 10 + (t2 \div LimbBase)
             t4 == un[4] * 10 + (t3 \div LimbBase)
         IN  IF t4 >= LimbBase
             THEN [un |-> <<LimbBase - 1, LimbBase - 1, LimbBase - 1, LimbBase - 1>>,
                   err |-> "range"]
             ELSE parseUintLoop(s, i + 1, I64MulAdd(un, 10, d))
MaxInt64 == <<LimbBase - 1, LimbBase - 1, LimbBase - 1, HalfLimb - 1>>
MinInt64 == <<0, 0, 0, HalfLimb>>
\* n, err := strconv.ParseInt(s, 10, 64): an optional sign and digits; n
\* is 0 on a syntax error and the nearest int64 on a range error
ParseInt(s) ==
    IF s = <<>> THEN [n |-> I64Zero, err |-> "syntax"]
    ELSE LET neg == s[1] = Minus
             body == IF s[1] = Plus \/ s[1] = Minus THEN Tail(s) ELSE s
             u == IF body = <<>> THEN [un |-> I64Zero, err |-> "syntax"]
                  ELSE parseUintLoop(body, 1, I64Zero)
         IN  IF u.err = "syntax" THEN [n |-> I64Zero, err |-> "syntax"]
             ELSE IF ~neg /\ (u.err = "range" \/ I64IsNeg(u.un))
                  THEN [n |-> MaxInt64, err |-> "range"]
             ELSE IF neg /\ (u.err = "range" \/ (I64IsNeg(u.un) /\ u.un # MinInt64))
                  THEN [n |-> MinInt64, err |-> "range"]
             ELSE [n |-> IF neg THEN I64Negate(u.un) ELSE u.un, err |-> "nil"]

\* func (v Value) Integer() int
ValueInteger(v) == IF v.typ = Colon THEN v.integer ELSE ParseInt(ValueString(v)).n
\* func (v Value) Bool() bool
ValueBool(v) == ValueInteger(v) # I64Zero

\* func (v Value) Equals(value Value) bool
EqualsMarshalled(m1, m2) ==
    IF m1.err # nil THEN FALSE
    ELSE IF m2.err # nil THEN FALSE
    ELSE m1.b = m2.b
\* an equality of the payloads
equalsStructural(v, value) == v = value
Equals(v, value) == EqualsMarshalled(MarshalRESP(v), MarshalRESP(value))


\* ------------------------------------------------------ the byte source
\* The io.Reader under the Reader: data is the whole stream, off the bytes
\* handed out so far, chunk the most bytes one Read hands out (a
\* bytes.Buffer hands out all it has, a pipe what one Write held), reads the
\* number of Read calls made.
Min(a, b) == IF a < b THEN a ELSE b

\* The io.Reader under the Reader: the stream data, handed out chunk
\* bytes at a time.  At the end of data Read returns the error fail: with
\* no bytes, or (early) together with the last ones.  History: reads the
\* Read calls, ended whether Read has returned an error, again whether
\* Read was called after that.
FailingSource(data, chunk, early, fail) ==
    [data |-> data, off |-> 0, chunk |-> chunk, reads |-> 0, early |-> early, fail |-> fail,
     ended |-> FALSE, again |-> FALSE]
\* bytes.NewBuffer(data): io.EOF once nothing is left
NewSource(data, chunk) == FailingSource(data, chunk, FALSE, EOF)

\* n, err := rd.rd.Read(buf) with len(buf) = size
SourceRead(src, size) ==
    LET n == Min(Min(src.chunk, size), Len(src.data) - src.off)
        err == IF n = 0 \/ (src.early /\ src.off + n = Len(src.data)) THEN src.fail ELSE nil
    IN  [src |-> [src EXCEPT !.off = src.off + n, !.reads = src.reads + 1,
                             !.ended = src.ended \/ err # nil,
                             !.again = src.again \/ src.ended],
         bytes |-> SubSeq(src.data, src.off + 1, src.off + n),
         n |-> n,
         err |-> err]

\* A byte slice that begins as make([]byte, size) filled from the front and
\* is then appended to: the bytes a, then z zero bytes, then the bytes b.
\* (The zero bytes of a freshly made buffer are kept as a count.)
NilBuf == [a |-> <<>>, z |-> 0, b |-> <<>>]
\* buf := make([]byte, size) after Read has stored bytes at its front
MakeBuf(bytes, size) == [a |-> bytes, z |-> size - Len(bytes), b |-> <<>>]
BufLen(buf) == Len(buf.a) + buf.z + Len(buf.b)
\* buf[i-1]
BufAt(buf, i) ==
    IF i <= Len(buf.a) THEN buf.a[i]
    ELSE IF i <= Len(buf.a) + buf.z THEN 0
    ELSE buf.b[i - Len(buf.a) - buf.z]
\* buf[i-1 : j]
BufSlice(buf, i, j) == [k \in 1..(j - i + 1) |-> BufAt(buf, i + k - 1)]
\* append(buf, bytes...)
BufAppend(buf, bytes) == [buf EXCEPT !.b = buf.b \o bytes]
\* buf[i-1] = c
BufSet(buf, i, c) ==
    IF i <= Len(buf.a) THEN [buf EXCEPT !.a[i] = c]
    ELSE IF i <= Len(buf.a) + buf.z
    THEN IF c = 0 THEN buf
         ELSE [a |-> buf.a \o [k \in 1..(i - Len(buf.a)) |-> IF k = i - Len(buf.a) THEN c ELSE 0],
               z |-> Len(buf.a) + buf.z - i, b |-> buf.b]
    ELSE [buf EXCEPT !.b[i - Len(buf.a) - buf.z] = c]

\* ---------------------------------------------------------------- Reader
\* type Reader struct {rd; buf; p, l, s; rerr}.  starved is a history field:
\* fillBuffer had to report an error during the current call.  rd.buf is
\* a slice of a backing array and the slices readLine and readBytes return
\* share that array: gen counts the arrays made for rd.buf, and lent lists
\* the slices handed out (the array, the bounds, the bytes and len(rd.buf)
\* at that time).
\* append is taken to extend the array in place, which keeps every slice
\* handed out of it attached to rd.buf.
NewReader(src) ==
    [rd |-> src, buf |-> NilBuf, p |-> 0, l |-> 0, s |-> 0, rerr |-> nil,
     starved |-> FALSE, gen |-> 0, lent |-> <<>>]
\* b = rd.buf[lo-1 : hi] leaves the Reader
Lend(r, lo, hi) ==
    [r EXCEPT !.lent = Append(r.lent, [gen |-> r.gen, lo |-> lo, hi |-> hi,
                                       bytes |-> BufSlice(r.buf, lo, hi),
                                       len |-> BufLen(r.buf)])]

\* Bind(v, F) is F(v), with v evaluated once.
Bind(v, F(_)) == CHOOSE y \in {F(x) : x \in {v}} : TRUE

\* a fillBuffer that reads into the array rd.buf already has
fillBufferReadInPlace(r, ignoreRebuffering, rr) ==
    IF rr.n > 0
    THEN IF ~ignoreRebuffering /\ r.l = 0
         THEN [r |-> [r EXCEPT !.rd = rr.src, !.rerr = rr.err,
                               !.l = rr.n, !.s = rr.n, !.p = 0,
                               !.buf = MakeBuf(rr.bytes, bufsz)],
               err |-> nil]
         ELSE [r |-> [r EXCEPT !.rd = rr.src, !.rerr = rr.err,
                               !.buf = BufAppend(r.buf, BufSlice(MakeBuf(rr.bytes, bufsz), 1, rr.n)),
                               !.s = r.s + rr.n, !.l = r.l + rr.n],
               err |-> nil]
    ELSE [r |-> [r EXCEPT !.rd = rr.src, !.rerr = rr.err, !.starved = TRUE],
          err |-> rr.err]
\* the result of fillBuffer, given rr, what rd.rd.Read(buf) returned
fillBufferRead(r, ignoreRebuffering, rr) ==
    IF rr.n > 0
    THEN IF ~ignoreRebuffering /\ r.l = 0
         THEN [r |-> [r EXCEPT !.rd = rr.src, !.rerr = rr.err,
                               !.l = rr.n, !.s = rr.n, !.p = 0,
                               !.buf = MakeBuf(rr.bytes, bufsz), !.gen = r.gen + 1],
               err |-> nil]
         ELSE [r |-> [r EXCEPT !.rd = rr.src, !.rerr = rr.err,
                               !.buf = BufAppend(r.buf, BufSlice(MakeBuf(rr.bytes, bufsz), 1, rr.n)),
                               !.s = r.s + rr.n, !.l = r.l + rr.n],
               err |-> nil]
    ELSE [r |-> [r EXCEPT !.rd = rr.src, !.rerr = rr.err, !.starved = TRUE],
          err |-> rr.err]

\* a fillBuffer that asks the source again after an error
fillBufferRetrying(r, ignoreRebuffering) ==
    fillBufferRead(r, ignoreRebuffering, SourceRead(r.rd, bufsz))
fillBuffer(r, ignoreRebuffering) ==
    IF r.rerr # nil THEN [r |-> [r EXCEPT !.starved = TRUE], err |-> r.rerr]
    ELSE fillBufferRead(r, ignoreRebuffering, SourceRead(r.rd, bufsz))

RECURSIVE readByte(_)
readByte(r) ==
    IF r.l < 1
    THEN Bind(fillBuffer(r, FALSE), LAMBDA f :
            IF f.err # nil THEN [r |-> f.r, c |-> 0, n |-> 0, err |-> f.err]
            ELSE readByte(f.r))
    ELSE [r |-> [r EXCEPT !.p = r.p + 1, !.l = r.l - 1],
          c |-> BufAt(r.buf, r.p + 1), n |-> 1, err |-> nil]

RECURSIVE readBytes(_, _)
\* b is the slice rd.buf[rd.p : rd.p+count]; bNil tells a nil slice
readBytes(r, count) ==
    IF count < 0
    THEN [r |-> r, b |-> <<>>, bNil |-> TRUE, n |-> 0, err |-> errorsNew("invalid argument")]
    ELSE IF r.l < count
    THEN Bind(fillBuffer(r, FALSE), LAMBDA f :
            IF f.err # nil
            THEN [r |-> f.r, b |-> <<>>, bNil |-> TRUE, n |-> 0, err |-> f.err]
            ELSE readBytes(f.r, count))
    ELSE [r |-> [Lend(r, r.p + 1, r.p + count) EXCEPT !.p = r.p + count, !.l = r.l - count],
          b |-> BufSlice(r.buf, r.p + 1, r.p + count), bNil |-> FALSE,
          n |-> count, err |-> nil]

RECURSIVE readLineLoop(_, _, _, _, _)
\* the for loop of readLine with its locals p, l, n, lc
readLineLoop(r, p, l, n, lc) ==
    IF l = 0
    THEN Bind(fillBuffer(r, TRUE), LAMBDA f :
            IF f.err # nil
            THEN [r |-> f.r, b |-> <<>>, bNil |-> TRUE, n |-> 0, err |-> f.err]
            ELSE readLineLoop(f.r, p, f.r.l - (p - f.r.p), n, lc))
    ELSE IF BufAt(r.buf, p + 1) = LF /\ lc = CR
    THEN [r |-> [Lend(r, r.p + 1, r.p + (n + 1) - 2) EXCEPT !.p = p + 1, !.l = r.l - (n + 1)],
          b |-> BufSlice(r.buf, r.p + 1, r.p + (n + 1) - 2), bNil |-> FALSE,
          n |-> n + 1, err |-> nil]
    ELSE readLineLoop(r, p + 1, l - 1, n + 1, BufAt(r.buf, p + 1))

readLine(r) == readLineLoop(r, r.p, r.l, 0, 0)

unreadByte(r, c) ==
    IF r.p > 0
    THEN [r EXCEPT !.p = r.p - 1, !.l = r.l + 1, !.buf = BufSet(r.buf, r.p, c)]
    ELSE [r EXCEPT !.l = r.l + 1, !.s = r.l + 1]

RECURSIVE readIntLoop(_, _)
\* readInt after a '\r': b is what the readByte for the '\n' returned
readIntEnd(b, st, neg) ==
    IF b.err # nil THEN [r |-> b.r, x |-> I64Zero, n |-> st.n + b.n, err |-> b.err]
    ELSE IF b.c # LF
    THEN [r |-> b.r, x |-> I64Zero, n |-> st.n + b.n, err |-> errProtocol("invalid length")]
    ELSE [r |-> b.r, x |-> IF neg = -1 THEN I64Negate(st.length) ELSE st.length,
          n |-> st.n + b.n, err |-> nil]

\* readInt after a digit: b is what the readByte at the end of the loop body returned
readIntNext(b, st, neg) ==
    IF b.err # nil THEN [r |-> b.r, x |-> I64Zero, n |-> st.n + b.n, err |-> b.err]
    ELSE readIntLoop([r |-> b.r, c |-> b.c,
                      length |-> I64MulAdd(st.length, 10, st.c - Digit0),
                      n |-> st.n + b.n], neg)

\* the for loop of readInt; st holds the Reader r and the locals: c the byte
\* in hand, length the accumulated value, n the bytes read so far; neg is
\* the sign (1 or -1)
readIntLoop(st, neg) ==
    CASE st.c = CR -> readIntEnd(readByte(st.r), st, neg)
      [] IsDigit(st.c) -> readIntNext(readByte(st.r), st, neg)
      [] OTHER -> [r |-> st.r, x |-> I64Zero, n |-> st.n,
                   err |-> errProtocol("invalid length")]

\* readInt after a leading '-': b2 is what the second readByte returned
readIntSigned(b2, n1) ==
    IF b2.err # nil THEN [r |-> b2.r, x |-> I64Zero, n |-> n1 + b2.n, err |-> b2.err]
    ELSE readIntLoop([r |-> b2.r, c |-> b2.c, length |-> I64Zero, n |-> n1 + b2.n], -1)

\* readInt once its first readByte has returned b1
readIntFirst(b1) ==
    IF b1.err # nil THEN [r |-> b1.r, x |-> I64Zero, n |-> b1.n, err |-> b1.err]
    ELSE IF b1.c = Minus THEN readIntSigned(readByte(b1.r), b1.n)
    ELSE readIntLoop([r |-> b1.r, c |-> b1.c, length |-> I64Zero, n |-> b1.n], 1)

readInt(r) == readIntFirst(readByte(r))

readSimpleValue(r, typ) ==
    Bind(readLine(r), LAMBDA ln :
        IF ln.err # nil THEN [r |-> ln.r, val |-> nullValue, n |-> ln.n, err |-> ln.err]
        ELSE [r |-> ln.r, val |-> StrValue(typ, ln.b, ln.bNil), n |-> ln.n, err |-> nil])

MaxBulkLen == 512 * 1024 * 1024
MaxArrayLen == 1024 * 1024

\* readBulkValue after the length l (0 <= l <= 512 MiB) and its n bytes are read
readBulkPayload(r, l, n) ==
    Bind(readBytes(r, l + 2), LAMBDA b :
        IF b.err # nil
        THEN [r |-> b.r, val |-> nullValue, n |-> n + b.n, err |-> b.err]
        ELSE IF b.b[l + 1] # CR \/ b.b[l + 2] # LF
        THEN [r |-> b.r, val |-> nullValue, n |-> n + b.n,
              err |-> errProtocol("invalid bulk line ending")]
        ELSE [r |-> b.r, val |-> StrValue(Dollar, SubSeq(b.b, 1, l), FALSE),
              n |-> n + b.n, err |-> nil])

readBulkValue(r) ==
    Bind(readInt(r), LAMBDA i :
        IF i.err # nil
        THEN IF IsErrProtocol(i.err)
             THEN [r |-> i.r, val |-> nullValue, n |-> i.n,
                   err |-> errProtocol("invalid bulk length")]
             ELSE [r |-> i.r, val |-> nullValue, n |-> i.n, err |-> i.err]
        ELSE IF I64IsNeg(i.x)
        THEN [r |-> i.r, val |-> NullOf(Dollar), n |-> i.n, err |-> nil]
        ELSE IF I64GtNat(i.x, MaxBulkLen)
        THEN [r |-> i.r, val |-> nullValue, n |-> i.n,
              err |-> errProtocol("invalid bulk length")]
        ELSE readBulkPayload(i.r, I64ToNat(i.x), i.n))

readIntegerValue(r) ==
    Bind(readInt(r), LAMBDA i :
        IF i.err # nil
        THEN IF IsErrProtocol(i.err)
             THEN [r |-> i.r, val |-> nullValue, n |-> i.n,
                   err |-> errProtocol("invalid integer")]
             ELSE [r |-> i.r, val |-> nullValue, n |-> i.n, err |-> i.err]
        ELSE [r |-> i.r, val |-> IntValue(i.x), n |-> i.n, err |-> nil])

\* a line end that leaves a '\r' before the '\n' in the last token
readTelnetEndKeepCR(r, st, n) ==
    IF st.quote
    THEN [r |-> r, val |-> nullValue, n |-> n,
          err |-> errProtocol("unbalanced quotes in request")]
    ELSE IF Len(st.bline) > 0
    THEN [r |-> r,
          val |-> ArrValue(Append(st.values, StrValue(Dollar, st.bline, FALSE)), FALSE),
          n |-> n, err |-> nil]
    ELSE [r |-> r, val |-> ArrValue(st.values, FALSE), n |-> n, err |-> nil]

\* readTelnetMultiBulk once its loop has met the LF that ends the line
readTelnetEnd(r, st, n) ==
    LET bline == IF Len(st.bline) > 0 /\ st.bline[Len(st.bline)] = CR
                 THEN SubSeq(st.bline, 1, Len(st.bline) - 1) ELSE st.bline
    IN  IF st.quote
        THEN [r |-> r, val |-> nullValue, n |-> n,
              err |-> errProtocol("unbalanced quotes in request")]
        ELSE IF Len(bline) > 0
        THEN [r |-> r,
              val |-> ArrValue(Append(st.values, StrValue(Dollar, bline, FALSE)), FALSE),
              n |-> n, err |-> nil]
        ELSE [r |-> r, val |-> ArrValue(st.values, FALSE), n |-> n, err |-> nil]

\* the locals of readTelnetMultiBulk after the byte c has gone through the
\* if/else chain of the loop body (c is not '\n', and passed the mustspace test)
telnetStep(st, c) ==
    CASE c = Space /\ st.quote -> [st EXCEPT !.bline = Append(st.bline, c), !.blineNil = FALSE]
      [] c = Space /\ ~st.quote ->
            [st EXCEPT !.values = Append(st.values, StrValue(Dollar, st.bline, st.blineNil)),
                       !.bline = <<>>, !.blineNil = TRUE]
      [] c = Quote /\ st.quote -> [st EXCEPT !.mustspace = TRUE]
      [] c = Quote /\ ~st.quote -> [st EXCEPT !.quote = TRUE]
      [] OTHER -> [st EXCEPT !.bline = Append(st.bline, c), !.blineNil = FALSE]

RECURSIVE readTelnetLoop(_)
\* one turn of the loop: b is what readByte returned
readTelnetByte(b, st) ==
    CASE b.err # nil -> [r |-> b.r, val |-> nullValue, n |-> st.n + b.n, err |-> b.err]
      [] b.err = nil /\ b.c = LF -> readTelnetEnd(b.r, st, st.n + b.n)
      [] b.err = nil /\ b.c # LF /\ st.mustspace /\ b.c # Space ->
            [r |-> b.r, val |-> nullValue, n |-> st.n + b.n,
             err |-> errProtocol("unbalanced quotes in request")]
      [] b.err = nil /\ b.c = Quote /\ ~st.mustspace /\ ~st.quote /\ Len(st.bline) > 0 ->
            [r |-> b.r, val |-> nullValue, n |-> st.n + b.n,
             err |-> errProtocol("unbalanced quotes in request")]
      [] OTHER -> readTelnetLoop([telnetStep(st, b.c) EXCEPT !.r = b.r, !.n = st.n + b.n])

\* the for loop of readTelnetMultiBulk; st holds the Reader r and the locals
\* values, bline (blineNil: it is nil), quote, mustspace, n
readTelnetLoop(st) == readTelnetByte(readByte(st.r), st)

readTelnetMultiBulk(r) ==
    readTelnetLoop([r |-> r, values |-> <<>>, bline |-> <<>>, blineNil |-> TRUE,
                    quote |-> FALSE, mustspace |-> FALSE, n |-> 0])

RECURSIVE readValue(_, _, _)
RECURSIVE readArrayLoop(_, _, _, _, _, _)
\* the for loop of readArrayValue: child i of l is next, vals the children
\* read so far, n the bytes read so far
readArrayLoop(r, multibulk, l, i, vals, n) ==
    IF i >= l THEN [r |-> r, val |-> ArrValue(vals, FALSE), n |-> n, err |-> nil]
    ELSE Bind(readValue(r, multibulk, TRUE), LAMBDA a :
            IF a.err # nil
            THEN [r |-> a.r, val |-> nullValue, n |-> n + a.n, err |-> a.err]
            ELSE readArrayLoop(a.r, multibulk, l, i + 1, Append(vals, a.val), n + a.n))

readArrayValue(r, multibulk) ==
    Bind(readInt(r), LAMBDA i :
        IF i.err # nil \/ I64GtNat(i.x, MaxArrayLen)
        THEN IF IsErrProtocol(i.err)
             THEN IF multibulk
                  THEN [r |-> i.r, val |-> nullValue, n |-> i.n,
                        err |-> errProtocol("invalid multibulk length")]
                  ELSE [r |-> i.r, val |-> nullValue, n |-> i.n,
                        err |-> errProtocol("invalid array length")]
             ELSE [r |-> i.r, val |-> nullValue, n |-> i.n, err |-> i.err]
        ELSE IF I64IsNeg(i.x)
        THEN [r |-> i.r, val |-> NullOf(Star), n |-> i.n, err |-> nil]
        ELSE readArrayLoop(i.r, multibulk, I64ToNat(i.x), 0, <<>>, i.n))

\* readValue's end without the io.EOF test: the error goes out as it came
readValueTailKeepEOF(res, telnet, rn, c) ==
    [r |-> res.r, val |-> res.val, telnet |-> telnet, n |-> res.n + rn,
     err |-> res.err, first |-> c]

\* the end of readValue: n += rn, and io.EOF becomes io.ErrUnexpectedEOF.
\* first is a history field: the byte c that readValue read first.
readValueTail(res, telnet, rn, c) ==
    IF res.err = EOF
    THEN [r |-> res.r, val |-> nullValue, telnet |-> telnet, n |-> res.n + rn,
          err |-> ErrUnexpectedEOF, first |-> c]
    ELSE [r |-> res.r, val |-> res.val, telnet |-> telnet, n |-> res.n + rn,
          err |-> res.err, first |-> c]

\* the telnet branch of readValue: rd.unreadByte(c), readTelnetMultiBulk
readValueTelnet(r, c, rn) ==
    readValueTail(readTelnetMultiBulk(unreadByte(r, c)), TRUE, rn, c)

\* readValue's dispatch with the inline branch taken for an unrecognized
\* leading byte only, also under ReadMultiBulk
readValueSwitchUnknownOnly(r, c, rn, multibulk, child) ==
    IF c = Star THEN readValueTail(readArrayValue(r, multibulk), FALSE, rn, c)
    ELSE IF c = Minus \/ c = Plus THEN readValueTail(readSimpleValue(r, c), FALSE, rn, c)
    ELSE IF c = Colon THEN readValueTail(readIntegerValue(r), FALSE, rn, c)
    ELSE IF c = Dollar THEN readValueTail(readBulkValue(r), FALSE, rn, c)
    ELSE IF multibulk /\ child
    THEN [r |-> r, val |-> nullValue, telnet |-> FALSE, n |-> rn,
          err |-> errExpectedDollar(c), first |-> c]
    ELSE IF child
    THEN [r |-> r, val |-> nullValue, telnet |-> FALSE, n |-> rn,
          err |-> errProtocol("unknown first byte"), first |-> c]
    ELSE readValueTelnet(r, c, rn)

\* readValue once its first byte c is read (rn = 1)
readValueSwitch(r, c, rn, multibulk, child) ==
    IF c = Star THEN readValueTail(readArrayValue(r, multibulk), FALSE, rn, c)
    ELSE IF multibulk /\ ~child THEN readValueTelnet(r, c, rn)
    ELSE IF c = Minus \/ c = Plus THEN readValueTail(readSimpleValue(r, c), FALSE, rn, c)
    ELSE IF c = Colon THEN readValueTail(readIntegerValue(r), FALSE, rn, c)
    ELSE IF c = Dollar THEN readValueTail(readBulkValue(r), FALSE, rn, c)
    ELSE IF multibulk /\ child
    THEN [r |-> r, val |-> nullValue, telnet |-> FALSE, n |-> rn,
          err |-> errExpectedDollar(c), first |-> c]
    ELSE IF child
    THEN [r |-> r, val |-> nullValue, telnet |-> FALSE, n |-> rn,
          err |-> errProtocol("unknown first byte"), first |-> c]
    ELSE readValueTelnet(r, c, rn)

readValue(r, multibulk, child) ==
    Bind(readByte(r), LAMBDA b :
        IF b.err # nil
        THEN [r |-> b.r, val |-> nullValue, telnet |-> FALSE, n |-> b.n, err |-> b.err,
              first |-> 0]
        ELSE readValueSwitch(b.r, b.c, b.n, multibulk, child))

\* func (rd *Reader) ReadValue() (value Value, n int, err error): the telnet
\* result of readValue is dropped; inline is a history field that keeps it
ReaderReadValue(r) ==
    Bind(readValue(r, FALSE, FALSE), LAMBDA x :
        [r |-> x.r, val |-> x.val, telnet |-> FALSE, n |-> x.n, err |-> x.err,
         first |-> x.first, inline |-> x.telnet])

\* func (rd *Reader) ReadMultiBulk() (value Value, telnet bool, n int, err error)
ReaderReadMultiBulk(r) ==
    Bind(readValue(r, TRUE, FALSE), LAMBDA x :
        [r |-> x.r, val |-> x.val, telnet |-> x.telnet, n |-> x.n, err |-> x.err,
         first |-> x.first, inline |-> x.telnet])

\* ----------------------------------------------------------- constructors
\* formSingleLine: every '\r' and '\n' of s becomes a space
formSingleLine(s) == [i \in DOMAIN s |-> IF s[i] = CR \/ s[i] = LF THEN Space ELSE s[i]]
\* func SimpleStringValue(s string) Value
SimpleStringValue(s) == StrValue(Plus, formSingleLine(s), FALSE)
\* func BytesValue(b []byte) Value; bNil: b is nil
BytesValue(b, bNil) == StrValue(Dollar, b, bNil)
\* func StringValue(s string) Value
StringValue(s) == StrValue(Dollar, s, FALSE)
\* func NullValue() Value
NullValue == NullOf(Dollar)
\* func ErrorValue(err error) Value; errNil: err is nil, text is err.Error()
ErrorValue(errNil, text) ==
    IF errNil THEN StrValue(Minus, <<>>, TRUE) ELSE StrValue(Minus, text, FALSE)
\* func IntegerValue(i int) Value
IntegerValue(i) == IntValue(i)
\* func BoolValue(t bool) Value
BoolValue(t) == IF t THEN IntValue(I64FromNat(1)) ELSE IntValue(I64FromNat(0))
\* func ArrayValue(vals []Value) Value; valsNil: vals is nil
ArrayValue(vals, valsNil) == ArrValue(vals, valsNil)
\* one argument of MultiBulkValue: t names its dynamic type
MultiBulkArg(arg) ==
    CASE arg.t = "bytes" -> StringValue(arg.b)
      [] arg.t = "string" -> StringValue(arg.b)
      [] arg.t = "nil" -> NullValue
      [] OTHER -> StringValue(FormatInt(arg.i))
\* func MultiBulkValue(commandName string, args ...interface{}) Value
MultiBulkValue(commandName, args) ==
    ArrayValue(<<StringValue(commandName)>> \o [i \in DOMAIN args |-> MultiBulkArg(args[i])],
               FALSE)

\* ---------------------------------------------------------------- Writer
\* The io.Writer under the Writer: out is what it has accepted, left the
\* number of Write calls it still accepts before it fails.
ErrClosedPipe == [kind |-> "io", msg |-> "io: read/write on closed pipe", arg |-> 0]
NewSink(left) == [out |-> <<>>, left |-> left, writes |-> 0]
\* n, err := w.Write(b)
SinkWrite(w, b) ==
    IF w.left > 0
    THEN [w |-> [out |-> w.out \o b, left |-> w.left - 1, writes |-> w.writes + 1],
          n |-> Len(b), err |-> nil]
    ELSE [w |-> [w EXCEPT !.writes = w.writes + 1], n |-> 0, err |-> ErrClosedPipe]

\* type Writer struct {wr io.Writer}
NewWriter(w) == [wr |-> w]

\* a WriteValue that hands the sink the first byte, then the rest
WriteMarshalledInPieces(wr, m) ==
    IF m.err # nil
    THEN [wr |-> wr, ret |-> m.err, merr |-> m.err, wrote |-> FALSE, werr |-> nil, b |-> <<>>]
    ELSE Bind(SinkWrite(wr.wr, SubSeq(m.b, 1, 1)), LAMBDA x :
         Bind(SinkWrite(x.w, SubSeq(m.b, 2, Len(m.b))), LAMBDA y :
            [wr |-> [wr EXCEPT !.wr = y.w], ret |-> nil, merr |-> nil, wrote |-> TRUE,
             werr |-> y.err, b |-> m.b]))

\* WriteValue once v.MarshalRESP() has returned m: ret is the returned
\* error, werr what the sink's Write returned (nil when Write was not called)
WriteMarshalled(wr, m) ==
    IF m.err # nil
    THEN [wr |-> wr, ret |-> m.err, merr |-> m.err, wrote |-> FALSE, werr |-> nil, b |-> <<>>]
    ELSE Bind(SinkWrite(wr.wr, m.b), LAMBDA x :
            [wr |-> [wr EXCEPT !.wr = x.w], ret |-> nil, merr |-> nil, wrote |-> TRUE,
             werr |-> x.err, b |-> m.b])

\* func (wr *Writer) WriteValue(v Value) error
WriterWriteValue(wr, v) == WriteMarshalled(wr, MarshalRESP(v))
WriterWriteSimpleString(wr, s) == WriterWriteValue(wr, SimpleStringValue(s))
WriterWriteBytes(wr, b, bNil) == WriterWriteValue(wr, BytesValue(b, bNil))
WriterWriteString(wr, s) == WriterWriteValue(wr, StringValue(s))
WriterWriteNull(wr) == WriterWriteValue(wr, NullValue)
WriterWriteError(wr, errNil, text) == WriterWriteValue(wr, ErrorValue(errNil, text))
WriterWriteInteger(wr, i) == WriterWriteValue(wr, IntegerValue(i))
WriterWriteArray(wr, vals, valsNil) == WriterWriteValue(wr, ArrayValue(vals, valsNil))
WriterWriteMultiBulk(wr, commandName, args) ==
    WriterWriteValue(wr, MultiBulkValue(commandName, args))

\* ------------------------------------------------- the append-only log
\* The log of section 4.4 of the specification (its implementation is not
\* among the sources; its tests are).  A log is the file at one path and
\* the handle on it: file the bytes written, synced the length of the prefix
\* forced to stable storage, handle whether the process holds a handle,
\* open whether that handle is open, policy the sync policy.  History: log the values appended, crashed whether the
\* process has crashed.
Policies == {"unknown", "never", "always", "every second"}
errClosed == errorsNew("closed")

\* the file at a path that did not exist, with no handle on it
NoFile ==
    [file |-> <<>>, synced |-> 0, handle |-> FALSE, open |-> FALSE, policy |-> "never",
     log |-> <<>>, resumed |-> 0, crashed |-> FALSE, atCrash |-> 0]

\* OpenAOF(path): the file is opened for append, created if absent
\* an OpenAOF that creates the file anew
OpenAOFTruncating(a, policy) ==
    [a EXCEPT !.file = <<>>, !.synced = 0, !.handle = TRUE, !.open = TRUE,
              !.policy = policy, !.resumed = Len(a.log)]
OpenAOF(a, policy) ==
    [a EXCEPT !.handle = TRUE, !.open = TRUE, !.policy = policy, !.resumed = Len(a.log)]

\* the marshaled bytes of the values vals, concatenated in order
aofMarshal(vals) == marshalElems(vals, 1, <<>>)

\* a write that leaves flushing to the operating system under every policy
aofWriteUnflushed(a, b, vals) == [a EXCEPT !.file = a.file \o b, !.log = a.log \o vals]
\* the file after the bytes b are written and, under the policy always,
\* flushed; vals are the values the bytes spell
aofWrite(a, b, vals) ==
    [a EXCEPT !.file = a.file \o b,
              !.synced = IF a.policy = "always" THEN Len(a.file) + Len(b) ELSE a.synced,
              !.log = a.log \o vals]

\* the end of Append / AppendMulti: m is what marshaling returned
aofAppendMarshalled(a, m, vals) ==
    IF m.err # nil THEN [a |-> a, ret |-> m.err, visited |-> <<>>]
    ELSE [a |-> aofWrite(a, m.b, vals), ret |-> nil, visited |-> <<>>]

\* handle.Append(value)
\* an Append that does not look at the handle
aofAppendUnguarded(a, v) == aofAppendMarshalled(a, MarshalRESP(v), <<v>>)
AOFAppend(a, v) ==
    IF ~a.open THEN [a |-> a, ret |-> errClosed, visited |-> <<>>]
    ELSE aofAppendMarshalled(a, MarshalRESP(v), <<v>>)

\* handle.AppendMulti(values): one contiguous write of the whole batch
\* an AppendMulti that writes the first value of the batch only
aofAppendMultiFirst(a, vals) ==
    IF ~a.open THEN [a |-> a, ret |-> errClosed, visited |-> <<>>]
    ELSE aofAppendMarshalled(a, aofMarshal(SubSeq(vals, 1, Min(1, Len(vals)))), vals)
AOFAppendMulti(a, vals) ==
    IF ~a.open THEN [a |-> a, ret |-> errClosed, visited |-> <<>>]
    ELSE aofAppendMarshalled(a, aofMarshal(vals), vals)

RECURSIVE aofScanLoop(_, _)
\* the loop of Scan: one ReadValue per turn, visited the values handed to
\* the callback so far
aofScanLoop(r, visited) ==
    Bind(ReaderReadValue(r), LAMBDA x :
        IF x.err = EOF THEN [visited |-> visited, err |-> nil]
        ELSE IF x.err # nil THEN [visited |-> visited, err |-> x.err]
        ELSE aofScanLoop(x.r, Append(visited, x.val)))

\* the end of Scan: sc is what the loop returned
aofScanned(a, sc) == [a |-> a, ret |-> sc.err, visited |-> sc.visited]

\* handle.Scan(visit): the file is read from its beginning by a Reader
AOFScan(a) ==
    IF ~a.open THEN [a |-> a, ret |-> errClosed, visited |-> <<>>]
    ELSE aofScanned(a, aofScanLoop(NewReader(NewSource(a.file, bufsz)), <<>>))

\* handle.SetSyncPolicy(policy)
AOFSetSyncPolicy(a, policy) ==
    IF ~a.open THEN [a |-> a, ret |-> nil, visited |-> <<>>]
    ELSE [a |-> [a EXCEPT !.policy = policy], ret |-> nil, visited |-> <<>>]

\* handle.Close(): the file is flushed and closed
AOFClose(a) ==
    IF ~a.open THEN [a |-> a, ret |-> errClosed, visited |-> <<>>]
    ELSE [a |-> [a EXCEPT !.open = FALSE, !.synced = Len(a.file)], ret |-> nil,
          visited |-> <<>>]

\* the periodic flush of the policy every second
AOFFlush(a) ==
    IF a.open /\ a.policy = "every second" THEN [a EXCEPT !.synced = Len(a.file)] ELSE a

\* a crash while the bytes b of the values vals were being written: the
\* file keeps keep bytes, no less than what was flushed
AOFCrash(a, b, vals, keep) ==
    [a EXCEPT !.file = SubSeq(a.file \o b, 1, keep), !.handle = FALSE, !.open = FALSE,
              !.log = a.log \o vals, !.crashed = TRUE, !.atCrash = Len(a.log) + Len(vals)]

\* ------------------------------------------------------------ the inputs
\* Wire messages written out byte by byte, as the generators of
\* resp_test.go (randRESPInteger, randRESPBulkString, randRESPArray, ...)
\* write them, and the malformed and inline inputs the claims are about.
RECURSIVE Dec(_)
Dec(k) == IF k < 10 THEN <<Digit0 + k>> ELSE Append(Dec(k \div 10), Digit0 + (k % 10))

RECURSIVE Concat(_)
Concat(ss) == IF ss = <<>> THEN <<>> ELSE Head(ss) \o Concat(Tail(ss))

CRLF == <<CR, LF>>
Line(t, body) == <<t>> \o body \o CRLF
BulkMsg(payload) == Line(Dollar, Dec(Len(payload))) \o payload \o CRLF
NullBulkMsg == Line(Dollar, <<Minus, Digit0 + 1>>)
ArrMsg(children) == Line(Star, Dec(Len(children))) \o Concat(children)
NullArrMsg == Line(Star, <<Minus, Digit0 + 1>>)

\* "a", "b", "OK", "SET"
ChA == <<97>>
ChB == <<98>>
TxtOK == <<79, 75>>
TxtSET == <<83, 69, 84>>

ScalarMsgs ==
    { Line(Colon, Dec(0)), Line(Colon, Dec(7)), Line(Colon, <<Minus>> \o Dec(12)),
      Line(Colon, Dec(1234567)),
      Line(Plus, <<>>), Line(Plus, TxtOK), Line(Minus, ChA \o <<Space>> \o ChB),
      NullBulkMsg, BulkMsg(<<>>), BulkMsg(ChA \o ChB),
      BulkMsg(ChA \o CRLF \o <<Plus>> \o ChB), BulkMsg(<<0, 255>>) }

ArrayMsgs ==
    { NullArrMsg, ArrMsg(<<>>),
      ArrMsg(<<Line(Colon, Dec(7))>>),
      ArrMsg(<<BulkMsg(TxtSET), BulkMsg(ChA), BulkMsg(ChA \o ChB)>>),
      ArrMsg(<<BulkMsg(ChA \o ChB), Line(Plus, TxtOK)>>),
      ArrMsg(<<ArrMsg(<<BulkMsg(ChA)>>), NullBulkMsg>>),
      ArrMsg(<<ArrMsg(<<>>), ArrMsg(<<NullArrMsg, Line(Minus, ChB)>>)>>) }

\* every canonical message of the model
CanonicalMsgs == ScalarMsgs \cup ArrayMsgs

\* the messages that also appear in two-message streams
PairMsgs ==
    { Line(Colon, Dec(7)), Line(Plus, TxtOK), BulkMsg(ChA \o ChB),
      ArrMsg(<<BulkMsg(ChA), BulkMsg(ChB)>>), NullBulkMsg }

\* streams that are concatenations of canonical messages, as lists of messages
CanonicalLists ==
    {<<m>> : m \in CanonicalMsgs} \cup {<<m1, m2>> : m1 \in PairMsgs, m2 \in PairMsgs}


\* inline (telnet) command lines, each with the tokens its words and quoted
\* spans spell: SET a b / OK / SET "a b" a / "a b" / "a"
InlineSetAB == TxtSET \o <<Space>> \o ChA \o <<Space>> \o ChB
InlineQuoted == TxtSET \o <<Space, Quote>> \o ChA \o <<Space>> \o ChB \o <<Quote, Space>> \o ChA
QuotedAB == <<Quote>> \o ChA \o <<Space>> \o ChB \o <<Quote>>
InlineCases ==
    { [line |-> InlineSetAB \o CRLF, tokens |-> <<TxtSET, ChA, ChB>>],
      [line |-> InlineSetAB \o <<LF>>, tokens |-> <<TxtSET, ChA, ChB>>],
      [line |-> TxtOK \o CRLF, tokens |-> <<TxtOK>>],
      [line |-> TxtOK \o <<LF>>, tokens |-> <<TxtOK>>],
      [line |-> InlineQuoted \o CRLF, tokens |-> <<TxtSET, ChA \o <<Space>> \o ChB, ChA>>],
      [line |-> InlineQuoted \o <<LF>>, tokens |-> <<TxtSET, ChA \o <<Space>> \o ChB, ChA>>],
      [line |-> QuotedAB \o CRLF, tokens |-> <<ChA \o <<Space>> \o ChB>>],
      [line |-> <<Quote>> \o ChA \o <<Quote, LF>>, tokens |-> <<ChA>>] }
InlineLines == {c.line : c \in InlineCases}
\* the tokens of the inline line m
InlineTokens(m) == (CHOOSE c \in InlineCases : c.line = m).tokens
InlineLists ==
    {<<m>> : m \in InlineLines}
        \cup {<<InlineSetAB \o CRLF, TxtOK \o <<LF>> >>, <<TxtOK \o CRLF, ArrMsg(<<BulkMsg(ChA)>>)>>}

\* arrays with an element whose leading byte is no type prefix
MalformedLists ==
    { <<ArrMsg(<<InlineSetAB \o CRLF>>)>>,
      <<ArrMsg(<<BulkMsg(ChA), TxtOK \o CRLF>>)>>,
      <<ArrMsg(<<Line(Colon, Dec(7)), TxtOK \o CRLF>>)>>,
      <<ArrMsg(<<ArrMsg(<<>>), ArrMsg(<<Line(Colon, Dec(7)), ArrMsg(<<InlineSetAB \o CRLF>>)>>)>>)>>,
      <<ArrMsg(<<ArrMsg(<<TxtOK \o <<LF>> >>)>>)>> }

\* headers that declare a length or a count above the ceilings
Digits(ds) == [i \in DOMAIN ds |-> Digit0 + ds[i]]
Pow64 == Digits(<<1, 8, 4, 4, 6, 7, 4, 4, 0, 7, 3, 7, 0, 9, 5, 5, 1, 6, 1, 6>>)
Pow64Plus2 == Digits(<<1, 8, 4, 4, 6, 7, 4, 4, 0, 7, 3, 7, 0, 9, 5, 5, 1, 6, 1, 8>>)
Pow63 == Digits(<<9, 2, 2, 3, 3, 7, 2, 0, 3, 6, 8, 5, 4, 7, 7, 5, 8, 0, 8>>)
BigLens == { Dec(MaxBulkLen + 1), Dec(MaxBulkLen + MaxBulkLen), Pow63, Pow64, Pow64Plus2 }
BigCounts == { Dec(MaxArrayLen + 1), Dec(MaxBulkLen), Pow63, Pow64, Pow64Plus2 }
OversizeLists ==
    {<<Line(Dollar, d) \o CRLF>> : d \in BigLens}
        \cup {<<Line(Dollar, d) \o ChA \o ChB \o CRLF>> : d \in BigLens}
        \cup {<<Line(Star, d)>> : d \in BigCounts}
        \cup {<<Line(Star, d) \o BulkMsg(ChA) \o BulkMsg(ChB)>> : d \in BigCounts}
        \cup {<<Line(Dollar, Dec(MaxBulkLen))>>, <<Line(Star, Dec(MaxArrayLen))>>}

\* canonical messages cut short: the source ends inside the value
TruncMsgs ==
    { Line(Colon, <<Minus>> \o Dec(12)), Line(Plus, TxtOK), BulkMsg(ChA \o CRLF \o ChB),
      ArrMsg(<<BulkMsg(ChA), BulkMsg(ChB)>>),
      ArrMsg(<<ArrMsg(<<Line(Colon, Dec(7))>>), Line(Minus, ChB)>>),
      InlineSetAB \o CRLF }
TruncInputs ==
    {[cls |-> "truncated", msgs |-> <<m>>, data |-> SubSeq(m, 1, k)] :
        <<m, k>> \in {mk \in TruncMsgs \X (1..16) : mk[2] < Len(mk[1])}}
        \cup {[cls |-> "truncated", msgs |-> <<Line(Colon, Dec(7)), m>>,
               data |-> Line(Colon, Dec(7)) \o SubSeq(m, 1, Len(m) - 1)] : m \in TruncMsgs}

\* what stands between ':' and CRLF: decimal integers and malformed text
IntBodies ==
    { Dec(0), Dec(12), <<Minus>> \o Dec(12), Dec(0) \o Dec(0) \o Dec(7),
      <<>>, <<Minus>>, <<Plus>> \o Dec(5), <<Minus, Minus>> \o Dec(1),
      ChA, Dec(1) \o ChA, Dec(1) \o <<Space>>, Dec(1) \o <<CR>> \o ChA, Dec(1) \o <<LF>> }
IntegerInputs ==
    {[cls |-> "integer", msgs |-> <<Line(Colon, b)>>, data |-> Line(Colon, b)] : b \in IntBodies}

\* bulk strings in four parts: the header line, the payload, the two bytes
\* that follow it, the next message.  The payloads hold CR, LF, NUL, 0xFF
\* and type prefixes; the endings are CRLF or something else.
BulkPayloads ==
    { <<>>, CRLF, ChA \o CRLF \o ChB, <<0, 255>>, <<Dollar, Star, LF>>, <<CR>> }
BulkEndings == { CRLF, <<LF, CR>>, <<CR, CR>>, ChA \o <<LF>> }
BulkLists ==
    {<<Line(Dollar, Dec(Len(p))), p, CRLF, Line(Colon, Dec(7))>> : p \in BulkPayloads}
        \cup {<<Line(Dollar, Dec(1)), ChA, e, Line(Colon, Dec(7))>> : e \in BulkEndings}
        \cup {<<Line(Dollar, <<Minus>> \o Dec(k)), <<>>, <<>>, BulkMsg(ChA)>> : k \in {1, 5}}
BulkInputs == {[cls |-> "bulk", msgs |-> l, data |-> Concat(l)] : l \in BulkLists}

Inputs ==
    BulkInputs \cup
    {[cls |-> "canonical", msgs |-> l, data |-> Concat(l)] : l \in CanonicalLists}
        \cup {[cls |-> "inline", msgs |-> l, data |-> Concat(l)] : l \in InlineLists}
        \cup {[cls |-> "oversize", msgs |-> l, data |-> Concat(l)] : l \in OversizeLists}
        \cup {[cls |-> "malformed", msgs |-> l, data |-> Concat(l)] : l \in MalformedLists}
        \cup TruncInputs
        \cup IntegerInputs

\* what the Writer operations are given
WStrings == { <<>>, TxtOK, ChA \o <<Space>> \o ChB, ChA \o CRLF \o ChB }
WInts == { I64Zero, I64FromNat(7), I64Negate(I64FromNat(12)) }
\* var v Value (no type, not null), which MarshalRESP refuses
StrangeValue == MkValue(0, I64Zero, <<>>, TRUE, <<>>, TRUE, FALSE)
WValues ==
    { SimpleStringValue(TxtOK), IntegerValue(I64FromNat(7)), NullValue, nullValue,
      StrangeValue, ArrayValue(<<StringValue(ChA), StrangeValue>>, FALSE),
      ErrorValue(FALSE, ChA \o CRLF \o ChB) }
WArrays == { <<>>, <<StringValue(ChA), IntegerValue(I64FromNat(7))>>, <<StrangeValue>> }
WArgs ==
    { <<>>, <<[t |-> "string", b |-> ChA, i |-> I64Zero]>>,
      <<[t |-> "int", b |-> <<>>, i |-> I64FromNat(7)], [t |-> "nil", b |-> <<>>, i |-> I64Zero]>>,
      <<[t |-> "bytes", b |-> ChA \o ChB, i |-> I64Zero]>> }

\* what is appended to the log
LogValues ==
    { StringValue(ChA), MultiBulkValue(TxtSET, <<[t |-> "string", b |-> ChA, i |-> I64Zero]>>) }
LogBatches ==
    { <<>>, <<IntegerValue(I64Negate(I64FromNat(12))), StringValue(ChB)>>,
      <<StringValue(ChB), StrangeValue>> }

\* the Values given to Equals and MarshalRESP: how names the construction
\* helper, arg is the text it was given (for an integer, in decimal), v the
\* Value it returned and want the wire form RESP prescribes for it
Built(how, arg, v, want) == [how |-> how, arg |-> arg, v |-> v, want |-> want]
SignedDec(k) == IF k < 0 THEN <<Minus>> \o Dec(0 - k) ELSE Dec(k)
IntOf(k) == IF k < 0 THEN I64Negate(I64FromNat(0 - k)) ELSE I64FromNat(k)
BulkTexts == { <<>>, ChA, ChA \o CRLF \o ChB, TxtSET \o TxtSET \o TxtSET \o TxtSET }
BuiltValues ==
    {Built("SimpleStringValue", s, SimpleStringValue(s), Line(Plus, s)) :
        s \in {<<>>, TxtOK, ChA \o <<Space>> \o ChB}}
    \cup {Built("SimpleStringValue", ChA \o CRLF \o ChB, SimpleStringValue(ChA \o CRLF \o ChB),
                Line(Plus, ChA \o <<Space, Space>> \o ChB))}
    \cup {Built("ErrorValue", s, ErrorValue(FALSE, s), Line(Minus, s)) :
        s \in {<<>>, TxtOK, ChA \o <<Space>> \o ChB}}
    \cup {Built("ErrorValue(nil)", <<>>, ErrorValue(TRUE, <<>>), Line(Minus, <<>>))}
    \cup {Built("IntegerValue", SignedDec(k), IntegerValue(IntOf(k)), Line(Colon, SignedDec(k))) :
        k \in {0, 1, 7, 0 - 1, 0 - 12, 1234567, 0 - 1000000}}
    \cup {Built("IntegerValue", <<Minus>> \o Pow63,
                IntegerValue(<<0, 0, 0, HalfLimb>>), Line(Colon, <<Minus>> \o Pow63)),
          Built("IntegerValue", Digits(<<9, 2, 2, 3, 3, 7, 2, 0, 3, 6, 8, 5, 4, 7, 7, 5, 8, 0, 7>>),
                IntegerValue(<<LimbBase - 1, LimbBase - 1, LimbBase - 1, HalfLimb - 1>>),
                Line(Colon, Digits(<<9, 2, 2, 3, 3, 7, 2, 0, 3, 6, 8, 5, 4, 7, 7, 5, 8, 0, 7>>)))}
    \cup {Built("BoolValue", Dec(1), BoolValue(TRUE), Line(Colon, Dec(1))),
          Built("BoolValue", Dec(0), BoolValue(FALSE), Line(Colon, Dec(0)))}
    \cup {Built("NullValue", <<>>, NullValue, NullBulkMsg)}
    \cup {Built("StringValue", s, StringValue(s), BulkMsg(s)) : s \in BulkTexts}
    \cup {Built("BytesValue", s, BytesValue(s, FALSE), BulkMsg(s)) : s \in BulkTexts \cup {<<0, 255>>}}
    \cup {Built("BytesValue(nil)", <<>>, BytesValue(<<>>, TRUE), BulkMsg(<<>>))}
    \cup {Built("ArrayValue(nil)", <<>>, ArrayValue(<<>>, TRUE), ArrMsg(<<>>)),
          Built("ArrayValue", <<>>, ArrayValue(<<>>, FALSE), ArrMsg(<<>>)),
          Built("ArrayValue", <<>>, ArrayValue(<<StringValue(ChA), IntegerValue(IntOf(7))>>, FALSE),
                ArrMsg(<<BulkMsg(ChA), Line(Colon, Dec(7))>>)),
          Built("ArrayValue", <<>>,
                ArrayValue(<<ArrayValue(<<NullValue, BoolValue(TRUE)>>, FALSE),
                             SimpleStringValue(TxtOK), ArrayValue(<<>>, TRUE)>>, FALSE),
                ArrMsg(<<ArrMsg(<<NullBulkMsg, Line(Colon, Dec(1))>>), Line(Plus, TxtOK),
                         ArrMsg(<<>>)>>))}
    \cup {Built("MultiBulkValue", TxtSET,
                MultiBulkValue(TxtSET, <<[t |-> "string", b |-> ChA, i |-> I64Zero],
                                         [t |-> "nil", b |-> <<>>, i |-> I64Zero],
                                         [t |-> "int", b |-> <<>>, i |-> IntOf(0 - 12)],
                                         [t |-> "bytes", b |-> ChA \o ChB, i |-> I64Zero]>>),
                ArrMsg(<<BulkMsg(TxtSET), BulkMsg(ChA), NullBulkMsg,
                         BulkMsg(<<Minus>> \o Dec(12)), BulkMsg(ChA \o ChB)>>))}
    \cup {Built("Value{typ: '*', null: true}", <<>>, NullOf(Star), NullArrMsg)}
\* the Values the decoder returns for the streams of the model, and Values
\* that MarshalRESP refuses
DecodedValues ==
    {Built("decoded", <<>>, ReaderReadValue(NewReader(NewSource(in.data, bufsz))).val, <<>>) :
        in \in Inputs}
    \cup {Built("decoded", <<>>, ReaderReadMultiBulk(NewReader(NewSource(in.data, bufsz))).val, <<>>) :
        in \in Inputs}
RefusedValues ==
    { Built("Value{}", <<>>, StrangeValue, <<>>),
      Built("Value{}", <<>>, ArrayValue(<<StringValue(ChA), StrangeValue>>, FALSE), <<>>),
      Built("Value{}", <<>>, MkValue(99, I64Zero, <<>>, TRUE, <<>>, TRUE, TRUE), <<>>),
      Built("Value{}", <<>>,
            ArrayValue(<<ArrayValue(<<IntegerValue(I64FromNat(7)), StrangeValue>>, FALSE)>>, FALSE),
            <<>>) }
\* Values with the zero tag or an unknown tag which MarshalRESP accepts:
\* nullValue inside an array, a null Array whose array field holds a
\* Value of unknown tag
HiddenValues ==
    { Built("Value{}", <<>>, ArrayValue(<<nullValue, StringValue(ChA)>>, FALSE), <<>>),
      Built("Value{}", <<>>, MkValue(Star, I64Zero, <<>>, TRUE, <<StrangeValue>>, FALSE, TRUE),
            <<>>) }
ValueCorpus == BuiltValues \cup DecodedValues \cup RefusedValues \cup HiddenValues

\* "12.7", "-3.9", "0.5", "abc", "+7", "007"
Txt12p7 == <<49, 50, 46, 55>>
TxtM3p9 == <<45, 51, 46, 57>>
Txt0p5 == <<48, 46, 53>>
TxtAbc == <<97, 98, 99>>
TxtPlus7 == <<43, 55>>
Txt007 == <<48, 48, 55>>
\* the texts Integer() is asked to convert; want is the integer an
\* integer-then-float conversion makes of the text
NumberTexts ==
    { [s |-> SignedDec(12), want |-> IntOf(12)], [s |-> SignedDec(-3), want |-> IntOf(-3)],
      [s |-> Dec(0), want |-> IntOf(0)], [s |-> TxtPlus7, want |-> IntOf(7)],
      [s |-> Txt007, want |-> IntOf(7)],
      [s |-> Txt12p7, want |-> IntOf(12)], [s |-> TxtM3p9, want |-> IntOf(-3)],
      [s |-> Txt0p5, want |-> IntOf(0)],
      [s |-> TxtAbc, want |-> IntOf(0)], [s |-> <<>>, want |-> IntOf(0)],
      [s |-> <<Minus>>, want |-> IntOf(0)], [s |-> Dec(12) \o ChA, want |-> IntOf(0)] }
NumberValues ==
    {Built("StringValue", t.s, StringValue(t.s), t.want) : t \in NumberTexts}
    \cup {Built("SimpleStringValue", t.s, SimpleStringValue(t.s), t.want) : t \in NumberTexts}
    \cup {Built("ErrorValue", t.s, ErrorValue(FALSE, t.s), t.want) : t \in NumberTexts}
    \cup {Built("IntegerValue", SignedDec(k), IntegerValue(IntOf(k)), IntOf(k)) : k \in {-12, 0, 7}}
    \cup { Built("NullValue", <<>>, NullValue, IntOf(0)),
           Built("nullValue", <<>>, nullValue, IntOf(0)),
           Built("ArrayValue", <<>>, ArrayValue(<<IntegerValue(IntOf(7))>>, FALSE), IntOf(0)) }

\* ------------------------------------------------------------- the bounds
MaxCalls == 3
MaxChunk == 6
MaxWrites == 3
MaxLogOps == 5
MaxAppends == 2
NumThreads == 2
MaxFgOps == 4

\* the sizes of the pieces the source hands out: small fragments, or all at once
Chunks == (1..MaxChunk) \cup {bufsz}

\* ------------------------------------------------------ the state machine
VARIABLES
    input,      \* the stream under the Reader: its class, its messages, its bytes
    rd,         \* the Reader
    last,       \* the outcome of the last ReadValue / ReadMultiBulk call
    ref,        \* a Reader over the same bytes, all delivered by one Read
    refLast,    \* the outcome of the same call on ref
    calls,      \* the number of calls made
    wr,         \* the Writer
    wlast,      \* the outcome of the last Writer operation
    aof,        \* the append-only log: its file and the handle on it
    alast,      \* the outcome of the last operation on the log
    th,         \* the threads that share the log handle, and its mutex
    cmp         \* two Values and what Equals and MarshalRESP made of them

vars == <<input, rd, last, ref, refLast, calls, wr, wlast, aof, alast, th, cmp>>
rvars == <<input, rd, last, ref, refLast, calls>>
wvars == <<wr, wlast>>
lvars == <<aof, alast, th, cmp>>

\* the bytes the Reader has taken out of the stream so far
Consumed(r) == r.rd.off - r.l

\* The outcome of a call: what it returned (val, telnet, n, err) and, as
\* history, op the operation, start the bytes consumed before it, starved
\* whether the source ran dry during it, inline whether it parsed an inline
\* line, first the leading byte it read, ops the operations called so far,
\* sum the n returned so far, clean whether every earlier call returned nil,
\* ok whether every call so far returned nil, rerr0 and l0 the Reader's rerr
\* and l when the call began, perr what the call before returned.
NoCall ==
    [op |-> "none", val |-> nullValue, telnet |-> FALSE, n |-> 0, err |-> nil,
     start |-> 0, starved |-> FALSE, inline |-> FALSE, first |-> 0,
     ops |-> <<>>, sum |-> 0, clean |-> TRUE, ok |-> TRUE,
     rerr0 |-> nil, l0 |-> 0, perr |-> nil]

Outcome(op, res, r0, prev) ==
    [op |-> op, val |-> res.val, telnet |-> res.telnet, n |-> res.n, err |-> res.err,
     start |-> Consumed(r0), starved |-> res.r.starved, inline |-> res.inline,
     first |-> res.first, ops |-> Append(prev.ops, op), sum |-> prev.sum + res.n,
     clean |-> prev.ok, ok |-> prev.ok /\ res.err = nil,
     rerr0 |-> r0.rerr, l0 |-> r0.l, perr |-> prev.err]

NoWrite ==
    [op |-> "none", ret |-> nil, merr |-> nil, wrote |-> FALSE, werr |-> nil, b |-> <<>>,
     sum |-> <<>>, marshalled |-> 0, refused |-> FALSE]

\* a Reader over the stream in, handed out in pieces of ch bytes, and the
\* reference Reader over the same stream
InitReader(in, ch) ==
    /\ input = in
    /\ rd = NewReader(NewSource(in.data, ch))
    /\ ref = NewReader(NewSource(in.data, bufsz))
    /\ last = NoCall
    /\ refLast = NoCall
    /\ calls = 0

\* the outcome of an operation on the log: ret the error returned, visited
\* the values Scan handed to its callback and, as history, op the operation,
\* vals its values, pre the log before it, n the operations and appends the
\* Append / AppendMulti calls so far
NoLogOp ==
    [op |-> "none", ret |-> nil, visited |-> <<>>, vals |-> <<>>, pre |-> NoFile, n |-> 0,
     appends |-> 0]

\* no Values under comparison
NoValues ==
    [a |-> [how |-> "none", arg |-> <<>>, v |-> nullValue, want |-> <<>>],
     b |-> [how |-> "none", arg |-> <<>>, v |-> nullValue, want |-> <<>>],
     op |-> "none", eq |-> FALSE, qe |-> FALSE, m |-> [b |-> <<>>, err |-> nil],
     int |-> I64Zero, bool |-> FALSE]

\* the callers of one log handle: pc where each is in its call, vals the
\* values it appends, todo the marshalled bytes it has still to write, ret
\* what its call returned, mu the thread that holds the mutex (0: nobody)
\* and, as history, order the batches in the order their writes began
\* bg are the background flush tasks started so far (pc: asleep on the
\* timer, fired, or done; cancelled: told to stop), fg where the foreground
\* caller is, returned whether Close has returned, late whether a task
\* touched the file after that, n the foreground operations so far
NoThreads ==
    [pc |-> <<>>, vals |-> <<>>, todo |-> <<>>, ret |-> <<>>, mu |-> 0, order |-> <<>>,
     bg |-> <<>>, fg |-> "idle", returned |-> FALSE, late |-> FALSE, n |-> 0]

\* no log in use
InitNoLog ==
    /\ aof = NoFile
    /\ alast = NoLogOp
    /\ th = NoThreads
    /\ cmp = NoValues

\* a Writer over a sink that accepts left more Write calls
InitWriter(left) ==
    /\ wr = NewWriter(NewSink(left))
    /\ wlast = NoWrite

Init == \E in \in Inputs, ch \in Chunks : InitReader(in, ch) /\ InitWriter(0) /\ InitNoLog

Call(op, res, refRes) ==
    /\ rd' = res.r
    /\ last' = Outcome(op, res, rd, last)
    /\ ref' = refRes.r
    /\ refLast' = Outcome(op, refRes, ref, refLast)
    /\ calls' = calls + 1
    /\ UNCHANGED <<input, wr, wlast, aof, alast, th, cmp>>

ReadValue ==
    /\ calls < MaxCalls
    /\ Call("ReadValue", ReaderReadValue([rd EXCEPT !.starved = FALSE]),
            ReaderReadValue([ref EXCEPT !.starved = FALSE]))

ReadMultiBulk ==
    /\ calls < MaxCalls
    /\ Call("ReadMultiBulk", ReaderReadMultiBulk([rd EXCEPT !.starved = FALSE]),
            ReaderReadMultiBulk([ref EXCEPT !.starved = FALSE]))

Next == ReadValue \/ ReadMultiBulk

Spec == Init /\ [][Next]_vars

\* ------------------------------------ the Reader over a failing source
\* The same calls on a Reader whose source ends with io.EOF or with another
\* error, returned after the last bytes or together with them.
ErrInputs == {in \in Inputs : in.cls \in {"canonical", "truncated", "inline"}}
InitE ==
    /\ \E in \in ErrInputs, ch \in Chunks, early \in BOOLEAN, fail \in {EOF, ErrClosedPipe} :
          /\ input = in
          /\ rd = NewReader(FailingSource(in.data, ch, early, fail))
          /\ ref = NewReader(FailingSource(in.data, bufsz, early, fail))
    /\ last = NoCall
    /\ refLast = NoCall
    /\ calls = 0
    /\ InitWriter(0)
    /\ InitNoLog

SpecE == InitE /\ [][Next]_vars

\* ------------------------------------------- the Writer's state machine
EmptyInput == [cls |-> "canonical", msgs |-> <<>>, data |-> <<>>]

InitW ==
    \E left \in 0..MaxWrites : InitReader(EmptyInput, bufsz) /\ InitWriter(left) /\ InitNoLog

WCall(op, res) ==
    /\ wr.wr.writes < MaxWrites
    /\ wr' = res.wr
    /\ wlast' = [op |-> op, ret |-> res.ret, merr |-> res.merr, wrote |-> res.wrote,
                 werr |-> res.werr, b |-> res.b,
                 sum |-> wlast.sum \o res.b,
                 marshalled |-> wlast.marshalled + (IF res.merr = nil THEN 1 ELSE 0),
                 refused |-> wlast.refused \/ res.werr # nil]
    /\ UNCHANGED <<rvars, lvars>>

WriteValue == \E v \in WValues : WCall("WriteValue", WriterWriteValue(wr, v))
WriteSimpleString == \E s \in WStrings : WCall("WriteSimpleString", WriterWriteSimpleString(wr, s))
WriteBytes ==
    \E b \in WStrings, bNil \in BOOLEAN :
        (bNil => b = <<>>) /\ WCall("WriteBytes", WriterWriteBytes(wr, b, bNil))
WriteString == \E s \in WStrings : WCall("WriteString", WriterWriteString(wr, s))
WriteNull == WCall("WriteNull", WriterWriteNull(wr))
WriteError ==
    \E text \in WStrings, errNil \in BOOLEAN :
        (errNil => text = <<>>) /\ WCall("WriteError", WriterWriteError(wr, errNil, text))
WriteInteger == \E i \in WInts : WCall("WriteInteger", WriterWriteInteger(wr, i))
WriteArray ==
    \E vals \in WArrays, valsNil \in BOOLEAN :
        (valsNil => vals = <<>>) /\ WCall("WriteArray", WriterWriteArray(wr, vals, valsNil))
WriteMultiBulk ==
    \E args \in WArgs : WCall("WriteMultiBulk", WriterWriteMultiBulk(wr, TxtSET, args))

NextW ==
    \/ WriteValue \/ WriteSimpleString \/ WriteBytes \/ WriteString \/ WriteNull
    \/ WriteError \/ WriteInteger \/ WriteArray \/ WriteMultiBulk

SpecW == InitW /\ [][NextW]_vars


\* ----------------------------------------------- the log's state machine
\* One process at a time works on the log: it opens the path, appends,
\* scans, sets the policy, closes, and may crash, after which the path is
\* opened again and scanned.
InitL ==
    /\ InitReader(EmptyInput, bufsz)
    /\ InitWriter(0)
    /\ \E policy \in Policies : aof = OpenAOF(NoFile, policy)
    /\ alast = NoLogOp
    /\ th = NoThreads
    /\ cmp = NoValues

LCall(op, res, vals) ==
    /\ alast.n < MaxLogOps
    /\ aof' = res.a
    /\ alast' = [op |-> op, ret |-> res.ret, visited |-> res.visited, vals |-> vals,
                 pre |-> aof, n |-> alast.n + 1,
                 appends |-> alast.appends + (IF op \in {"Append", "AppendMulti"} THEN 1 ELSE 0)]
    /\ UNCHANGED <<rvars, wvars, th, cmp>>

LogOpen ==
    /\ ~aof.open
    /\ \E policy \in Policies :
          LCall("OpenAOF", [a |-> OpenAOF(aof, policy), ret |-> nil, visited |-> <<>>], <<>>)
LogAppend ==
    /\ aof.handle
    /\ alast.appends < MaxAppends
    /\ \E v \in LogValues \cup {StrangeValue} : LCall("Append", AOFAppend(aof, v), <<v>>)
LogAppendMulti ==
    /\ aof.handle
    /\ alast.appends < MaxAppends
    /\ \E vals \in LogBatches : LCall("AppendMulti", AOFAppendMulti(aof, vals), vals)
LogScan == aof.handle /\ LCall("Scan", AOFScan(aof), <<>>)
LogSetSyncPolicy ==
    /\ aof.handle
    /\ \E policy \in Policies : LCall("SetSyncPolicy", AOFSetSyncPolicy(aof, policy), <<>>)
LogClose == aof.handle /\ LCall("Close", AOFClose(aof), <<>>)
\* the background flush of an open handle
LogFlush ==
    /\ aof.open
    /\ aof.policy = "every second"
    /\ aof.synced < Len(aof.file)
    /\ aof' = AOFFlush(aof)
    /\ UNCHANGED <<rvars, wvars, alast, th, cmp>>
\* the process dies, between two operations or inside an Append /
\* AppendMulti that was writing the values vals
LogCrash ==
    /\ aof.open
    /\ ~aof.crashed
    /\ \E vals \in {<<>>, <<StringValue(ChA)>>} :
          \E keep \in aof.synced..(Len(aof.file) + Len(aofMarshal(vals).b)) :
              LCall("crash", [a |-> AOFCrash(aof, aofMarshal(vals).b, vals, keep),
                              ret |-> nil, visited |-> <<>>], vals)

NextL ==
    \/ LogOpen \/ LogAppend \/ LogAppendMulti \/ LogScan \/ LogSetSyncPolicy
    \/ LogClose \/ LogFlush \/ LogCrash

SpecL == InitL /\ [][NextL]_vars

\* ------------------------------------- the log under concurrent callers
\* Each thread makes one Append or AppendMulti call on the shared handle:
\* it takes the mutex, marshals its batch, writes the bytes (the file may
\* take them in several pieces), flushes under the policy Always and
\* releases the mutex.  The background flusher runs between them.
Threads == 1..NumThreads
ThreadBatches == {<<v>> : v \in LogValues} \cup LogBatches

\* a mutex that excludes nobody
lockAlwaysFree(mu) == TRUE
\* mu.Lock() returns
lockFree(mu) == mu = 0

InitC ==
    /\ InitReader(EmptyInput, bufsz)
    /\ InitWriter(0)
    /\ \E policy \in Policies : aof = OpenAOF(NoFile, policy)
    /\ alast = NoLogOp
    /\ th = [NoThreads EXCEPT !.pc = [t \in Threads |-> "idle"],
                              !.vals = [t \in Threads |-> <<>>],
                              !.todo = [t \in Threads |-> <<>>],
                              !.ret = [t \in Threads |-> nil]]
    /\ cmp = NoValues

\* thread t has the mutex and the marshalled batch m
ThreadMarshalled(t, vals, m) ==
    IF m.err # nil
    THEN th' = [th EXCEPT !.pc[t] = "done", !.ret[t] = m.err]
    ELSE th' = [th EXCEPT !.pc[t] = "writing", !.vals[t] = vals, !.todo[t] = m.b,
                          !.mu = t, !.order = Append(th.order, m.b)]

ThreadLock(t) ==
    /\ th.pc[t] = "idle"
    /\ lockFree(th.mu)
    /\ \E vals \in ThreadBatches : ThreadMarshalled(t, vals, aofMarshal(vals))
    /\ UNCHANGED <<rvars, wvars, aof, alast, cmp>>

\* the file takes the next k bytes of thread t's batch
ThreadWrite(t) ==
    /\ th.pc[t] = "writing"
    /\ th.todo[t] # <<>>
    /\ \E k \in 1..Len(th.todo[t]) :
          /\ aof' = [aof EXCEPT !.file = aof.file \o SubSeq(th.todo[t], 1, k)]
          /\ th' = [th EXCEPT !.todo[t] = SubSeq(th.todo[t], k + 1, Len(th.todo[t]))]
    /\ UNCHANGED <<rvars, wvars, alast, cmp>>

ThreadUnlock(t) ==
    /\ th.pc[t] = "writing"
    /\ th.todo[t] = <<>>
    /\ aof' = [aof EXCEPT !.synced = IF aof.policy = "always" THEN Len(aof.file) ELSE aof.synced,
                          !.log = aof.log \o th.vals[t]]
    /\ th' = [th EXCEPT !.pc[t] = "done", !.ret[t] = nil, !.mu = 0]
    /\ UNCHANGED <<rvars, wvars, alast, cmp>>

\* the background flusher takes the mutex, flushes and releases it
ThreadFlush ==
    /\ th.pc # <<>>
    /\ lockFree(th.mu)
    /\ aof.policy = "every second"
    /\ aof.synced < Len(aof.file)
    /\ aof' = AOFFlush(aof)
    /\ UNCHANGED <<rvars, wvars, alast, th, cmp>>

NextC ==
    \/ \E t \in Threads : ThreadLock(t) \/ ThreadWrite(t) \/ ThreadUnlock(t)
    \/ ThreadFlush

SpecC == InitC /\ [][NextC]_vars

\* ------------------------------------------ the log's background flusher
\* One foreground caller sets the policy, appends and closes; under the
\* policy every second a background task wakes on a timer, takes the mutex
\* and flushes.  Leaving that policy, and Close, cancel the task and wait
\* until it is gone.
NewTask == [pc |-> "sleep", cancelled |-> FALSE]
\* a task is started by OpenAOF or by a SetSyncPolicy
TaskIds == 1..(MaxFgOps + 1)
Live(bg) == {i \in DOMAIN bg : bg[i].pc # "done"}
\* a start of the flusher that does not look for a running one
startFlusherAgain(bg, policy) ==
    IF policy = "every second" THEN Append(bg, NewTask) ELSE bg
\* the flusher is started when the policy asks for it and none is running
startFlusher(bg, policy) ==
    IF policy = "every second" /\ Live(bg) = {} THEN Append(bg, NewTask) ELSE bg
\* every task is told to stop
cancelAll(bg) == [i \in DOMAIN bg |-> [bg[i] EXCEPT !.cancelled = TRUE]]
\* every task is gone
joined(bg) == Live(bg) = {}

InitF ==
    /\ InitReader(EmptyInput, bufsz)
    /\ InitWriter(0)
    /\ alast = NoLogOp
    /\ cmp = NoValues
    /\ \E policy \in Policies :
          /\ aof = OpenAOF(NoFile, policy)
          /\ th = [NoThreads EXCEPT !.bg = startFlusher(<<>>, policy)]

FgSetSyncPolicy ==
    /\ th.fg = "idle" /\ aof.open /\ lockFree(th.mu) /\ th.n < MaxFgOps
    /\ \E policy \in Policies :
          /\ aof' = AOFSetSyncPolicy(aof, policy).a
          /\ th' = IF policy = "every second"
                   THEN [th EXCEPT !.bg = startFlusher(th.bg, policy), !.n = th.n + 1]
                   ELSE [th EXCEPT !.bg = cancelAll(th.bg), !.fg = "joining", !.n = th.n + 1]
    /\ UNCHANGED <<rvars, wvars, alast, cmp>>

\* SetSyncPolicy returns once the task it cancelled is gone
FgPolicyJoined ==
    /\ th.fg = "joining" /\ joined(th.bg)
    /\ th' = [th EXCEPT !.fg = "idle"]
    /\ UNCHANGED <<rvars, wvars, aof, alast, cmp>>

\* Append takes the mutex and writes
FgAppendWrite ==
    /\ th.fg = "idle" /\ aof.open /\ lockFree(th.mu) /\ th.n < MaxFgOps
    /\ aof' = [aof EXCEPT !.file = aof.file \o MarshalRESP(StringValue(ChA)).b,
                          !.log = Append(aof.log, StringValue(ChA))]
    /\ th' = [th EXCEPT !.fg = "appending", !.mu = 1, !.n = th.n + 1]
    /\ UNCHANGED <<rvars, wvars, alast, cmp>>

\* Append flushes under the policy always, releases the mutex and returns
FgAppendReturn ==
    /\ th.fg = "appending"
    /\ aof' = [aof EXCEPT !.synced = IF aof.policy = "always" THEN Len(aof.file) ELSE aof.synced]
    /\ th' = [th EXCEPT !.fg = "idle", !.mu = 0]
    /\ UNCHANGED <<rvars, wvars, alast, cmp>>

\* Close takes the mutex, cancels the task, flushes and closes the file
FgCloseFile ==
    /\ th.fg = "idle" /\ aof.open /\ lockFree(th.mu)
    /\ aof' = AOFClose(aof).a
    /\ th' = [th EXCEPT !.bg = cancelAll(th.bg), !.fg = "closing"]
    /\ UNCHANGED <<rvars, wvars, alast, cmp>>

\* Close returns once the task is gone
FgCloseReturn ==
    /\ th.fg = "closing" /\ joined(th.bg)
    /\ th' = [th EXCEPT !.fg = "closed", !.returned = TRUE]
    /\ UNCHANGED <<rvars, wvars, aof, alast, cmp>>

\* the timer of task i fires
TimerFire(i) ==
    /\ i \in DOMAIN th.bg
    /\ th.bg[i].pc = "sleep" /\ ~th.bg[i].cancelled
    /\ th' = [th EXCEPT !.bg[i].pc = "fired"]
    /\ UNCHANGED <<rvars, wvars, aof, alast, cmp>>

\* task i, woken, takes the mutex, flushes, releases it and sleeps again
TaskFlush(i) ==
    /\ i \in DOMAIN th.bg
    /\ th.bg[i].pc = "fired" /\ ~th.bg[i].cancelled /\ lockFree(th.mu)
    /\ aof' = AOFFlush(aof)
    /\ th' = [th EXCEPT !.bg[i].pc = "sleep", !.late = th.late \/ th.returned]
    /\ UNCHANGED <<rvars, wvars, alast, cmp>>

\* task i, cancelled, ends
TaskExit(i) ==
    /\ i \in DOMAIN th.bg
    /\ th.bg[i].pc # "done" /\ th.bg[i].cancelled /\ lockFree(th.mu)
    /\ th' = [th EXCEPT !.bg[i].pc = "done"]
    /\ UNCHANGED <<rvars, wvars, aof, alast, cmp>>

NextF ==
    \/ FgSetSyncPolicy \/ FgPolicyJoined \/ FgAppendWrite \/ FgAppendReturn
    \/ FgCloseFile \/ FgCloseReturn
    \/ \E i \in TaskIds : TimerFire(i) \/ TaskFlush(i) \/ TaskExit(i)

SpecF == InitF /\ [][NextF]_vars

\* ------------------------------------------------- Values side by side
\* Two Values of the corpus; Equals compares them, MarshalRESP marshals the
\* first.
InitV ==
    /\ InitReader(EmptyInput, bufsz)
    /\ InitWriter(0)
    /\ aof = NoFile
    /\ alast = NoLogOp
    /\ th = NoThreads
    /\ \E a \in ValueCorpus, b \in ValueCorpus : cmp = [NoValues EXCEPT !.a = a, !.b = b]

ValueEquals ==
    /\ cmp.op = "none"
    /\ cmp' = [cmp EXCEPT !.op = "Equals", !.eq = Equals(cmp.a.v, cmp.b.v),
                          !.qe = Equals(cmp.b.v, cmp.a.v)]
    /\ UNCHANGED <<rvars, wvars, aof, alast, th>>

ValueMarshalRESP ==
    /\ cmp.op = "none"
    /\ cmp' = [cmp EXCEPT !.op = "MarshalRESP", !.m = MarshalRESP(cmp.a.v)]
    /\ UNCHANGED <<rvars, wvars, aof, alast, th>>

\* v.Integer() and v.Bool() on one Value
ValueIntegerBool ==
    /\ cmp.op = "none"
    /\ \E x \in NumberValues :
          cmp' = [cmp EXCEPT !.a = x, !.op = "Integer", !.int = ValueInteger(x.v),
                             !.bool = ValueBool(x.v)]
    /\ UNCHANGED <<rvars, wvars, aof, alast, th>>

NextV == ValueEquals \/ ValueMarshalRESP \/ ValueIntegerBool

SpecV == InitV /\ [][NextV]_vars

\* ============================================================ the claims
\* the offset in the stream at which message k of msgs begins
RECURSIVE MsgStart(_, _)
MsgStart(msgs, k) == IF k <= 1 THEN 0 ELSE MsgStart(msgs, k - 1) + Len(msgs[k - 1])

\* the call whose outcome is out began at the first byte of message k
AtMessage(out, k) ==
    /\ k \in DOMAIN input.msgs
    /\ out.op # "none"
    /\ out.start = MsgStart(input.msgs, k)

\* every call so far was ReadValue
OnlyReadValue(out) == \A i \in DOMAIN out.ops : out.ops[i] = "ReadValue"

\* the call whose outcome is out was the k-th of k successive ReadValue calls
\* on a stream of canonical messages, and message k is whole
KthReadValue(out, k) ==
    /\ input.cls = "canonical"
    /\ out.op = "ReadValue"
    /\ OnlyReadValue(out)
    /\ Len(out.ops) = k
    /\ k \in DOMAIN input.msgs

\* C1: for every stream that is a concatenation of canonical wire messages,
\* each successive ReadValue returns without error a Value whose MarshalRESP
\* output is byte-identical to the message it was decoded from (whatever the
\* sizes of the pieces the source hands out).
C1_RoundTrip ==
    \A k \in 1..MaxCalls :
        KthReadValue(last, k) =>
            /\ last.err = nil
            /\ MarshalRESP(last.val) = [b |-> input.msgs[k], err |-> nil]

\* C1, with the whole stream handed out by one Read: the round trip of the
\* k-th ReadValue
C1_RoundTripWhole ==
    \A k \in 1..MaxCalls :
        KthReadValue(refLast, k) =>
            /\ refLast.err = nil
            /\ MarshalRESP(refLast.val) = [b |-> input.msgs[k], err |-> nil]

\* a second message was read back whole, by the Reader fed in one piece
C1_WholeReached ==
    /\ KthReadValue(refLast, 2)
    /\ refLast.val.typ = Star
    /\ MarshalRESP(refLast.val).b = input.msgs[2]

\* C2: for every valid wire message and every way the source splits its bytes
\* over successive Read calls, ReadValue and ReadMultiBulk return the same
\* Value and the same n as when the whole message arrives in a single Read.
C2_FragmentationInvariance ==
    (input.cls = "canonical" /\ last.op # "none" /\ Len(last.ops) <= Len(input.msgs)
        /\ refLast.err = nil)
        => (last.val = refLast.val /\ last.n = refLast.n /\ last.err = nil)

\* C3: for every successful ReadValue or ReadMultiBulk call the returned n is
\* the number of stream bytes that make up the value, so over a stream read
\* without error up to io.EOF the returned n sum to the length of the stream.
\* (Stated of the Reader that gets the whole stream in one Read.)
C3_ConsumedCount ==
    /\ (refLast.op # "none" /\ refLast.err = nil)
            => refLast.n = Consumed(ref) - refLast.start
    /\ (refLast.err = EOF /\ refLast.clean) => refLast.sum = Len(input.data)

\* C4: when the source ends exactly at a value boundary (the call read no
\* byte) the call returns io.EOF; when it ends after at least one byte of a
\* value has been read the call returns io.ErrUnexpectedEOF and no Value,
\* and never io.EOF.
C4_EndOfSource ==
    /\ (last.starved /\ Consumed(rd) = last.start)
            => (last.err = EOF /\ last.n = 0 /\ last.val = nullValue)
    /\ (last.op # "none" /\ last.start = Len(input.data)) => last.err = EOF
    /\ (last.starved /\ Consumed(rd) > last.start)
            => (last.err = ErrUnexpectedEOF /\ last.val = nullValue)
    /\ last.err = EOF => (last.starved /\ Consumed(rd) = last.start)

\* the source ran dry between the elements of an array, two or more bytes
\* into the value, with the source handing out small pieces
C4_EndedInsideValue ==
    /\ input.cls = "truncated"
    /\ last.starved
    /\ last.first = Star
    /\ Consumed(rd) > last.start + 4
    /\ last.err = ErrUnexpectedEOF
    /\ rd.rd.chunk < bufsz

\* C5: when the sink's Write returns an error, the Writer operation that
\* issued it returns that same error; the operation returns nil only if
\* marshaling and the write both succeeded.
C5_WriteErrorSurfaced ==
    /\ wlast.werr # nil => wlast.ret = wlast.werr
    /\ (wlast.op # "none" /\ wlast.ret = nil)
            => (wlast.merr = nil /\ wlast.wrote /\ wlast.werr = nil)

\* the five type prefixes
Prefixes == {Plus, Minus, Colon, Dollar, Star}

\* C6: a successful ReadMultiBulk of '*'-framed input returns an Array whose
\* elements are all BulkStrings (every element with another leading byte
\* having made the call fail).  Stated of the Reader fed in one piece.
C6_MultiBulkChildren ==
    (refLast.op = "ReadMultiBulk" /\ refLast.n > 0 /\ refLast.first = Star
        /\ refLast.err = nil)
        => \A i \in DOMAIN refLast.val.array : refLast.val.array[i].typ = Dollar

TokenArray(toks) == ArrValue([i \in DOMAIN toks |-> StrValue(Dollar, toks[i], FALSE)], FALSE)

\* C8: in inline mode, for every command line whose quotes are balanced and
\* whose closing quotes are followed by a space or the line end, the read
\* succeeds and every quoted span is one BulkString token holding the span's
\* characters without the quotes.  Stated of the Reader fed in one piece.
C8_QuotedTokens ==
    \A k \in 1..MaxCalls :
        (AtMessage(refLast, k) /\ refLast.op = "ReadMultiBulk"
            /\ input.cls = "inline" /\ input.msgs[k] \in InlineLines)
            => /\ refLast.err = nil
               /\ refLast.telnet
               /\ refLast.val = TokenArray(InlineTokens(input.msgs[k]))

\* the index of the first '\r' of data
FirstCR(data) == CHOOSE i \in DOMAIN data : data[i] = CR /\ \A j \in 1..(i - 1) : data[j] # CR
\* the digits of the header line that begins data
HeaderDigits(data) == SubSeq(data, 2, FirstCR(data) - 1)
\* the decimal number the digits ds spell (no sign, no leading zero) is
\* greater than bound
DecGreater(ds, bound) ==
    /\ Len(ds) > 0
    /\ \A i \in DOMAIN ds : IsDigit(ds[i])
    /\ ds[1] # Digit0
    /\ \/ Len(ds) > Len(Dec(bound))
       \/ /\ Len(ds) = Len(Dec(bound))
          /\ \E i \in DOMAIN ds :
                /\ ds[i] > Dec(bound)[i]
                /\ \A j \in 1..(i - 1) : ds[j] = Dec(bound)[j]
\* the stream begins with a header of type t that declares more than bound
DeclaresAbove(t, bound) ==
    /\ Len(input.data) > 0
    /\ input.data[1] = t
    /\ \E i \in DOMAIN input.data : input.data[i] = CR
    /\ DecGreater(HeaderDigits(input.data), bound)

\* C9: when a '*' header declares a count greater than 1,048,576, ReadValue
\* and ReadMultiBulk return a non-nil protocol error (invalid array length /
\* invalid multibulk length) and no Value, without decoding any child.
\* Stated of the Reader fed in one piece.
C9_ArrayCeiling ==
    (DeclaresAbove(Star, MaxArrayLen) /\ refLast.op # "none" /\ refLast.start = 0)
        => /\ refLast.err = errProtocol(IF refLast.op = "ReadMultiBulk"
                                        THEN "invalid multibulk length"
                                        ELSE "invalid array length")
           /\ refLast.val = nullValue
           /\ Consumed(ref) = FirstCR(input.data) + 1

\* C10: for every '$' header whose declared decimal length is greater than
\* 512 MiB, digit strings that wrap the machine integer included, the read
\* fails with the protocol error "invalid bulk length" before any payload
\* byte is read.  Stated of ReadValue on the Reader fed in one piece.
C10_BulkCeiling ==
    (DeclaresAbove(Dollar, MaxBulkLen) /\ refLast.op = "ReadValue" /\ refLast.start = 0)
        => /\ refLast.err = errProtocol("invalid bulk length")
           /\ refLast.val = nullValue
           /\ Consumed(ref) = FirstCR(input.data) + 1

\* ---------------------------------------------------------------- C11
\* the values of a are those of b, one for one and in order
SameValues(a, b) ==
    /\ Len(a) = Len(b)
    /\ \A i \in 1..Len(a) : Equals(a[i], b[i]) /\ ValueString(a[i]) = ValueString(b[i])

\* C11: a Scan on an open handle of a log whose process never crashed
\* succeeds and hands the callback exactly the values appended so far, in
\* append order: those appended before the last OpenAOF followed by those
\* appended after it, whatever the sync policy.
C11_ScanReplaysAppends ==
    (alast.op = "Scan" /\ alast.pre.open /\ ~aof.crashed) =>
        /\ alast.ret = nil
        /\ SameValues(alast.visited, aof.log)

\* C11 happens: a Scan after Close and OpenAOF yields old values and then
\* values appended since.
C11_ScannedAfterReopen ==
    /\ alast.op = "Scan" /\ alast.pre.open /\ ~aof.crashed
    /\ aof.resumed >= 1
    /\ Len(aof.log) > aof.resumed
    /\ Len(alast.visited) = Len(aof.log)

\* ---------------------------------------------------------------- C12
IsPrefix(a, b) == Len(a) <= Len(b) /\ a = SubSeq(b, 1, Len(a))

\* C12: with several threads appending through one handle, the file is at
\* every moment the batches whose writes began, whole and one after the
\* other, the last of them possibly still being written; when no thread is
\* inside a call the file is exactly a concatenation of whole batches.
C12_BatchesContiguous ==
    /\ IsPrefix(aof.file, Concat(th.order))
    /\ Len(th.order) > 1 => IsPrefix(Concat(SubSeq(th.order, 1, Len(th.order) - 1)), aof.file)
    /\ th.mu = 0 => aof.file = Concat(th.order)

\* C12 happens: a thread has written part of its batch while another
\* thread's call is waiting to start.
C12_WaitingBehindWriter ==
    \E t, u \in DOMAIN th.pc :
        /\ t # u
        /\ th.pc[t] = "writing" /\ th.todo[t] # <<>>
        /\ Len(th.todo[t]) < Len(th.order[Len(th.order)])
        /\ th.pc[u] = "idle"

\* ---------------------------------------------------------------- C13
\* how many of the values of log lie wholly in the first n bytes of the file
RECURSIVE DurableCount(_, _, _)
DurableCount(log, n, k) ==
    IF k < Len(log) /\ Len(aofMarshal(SubSeq(log, 1, k + 1)).b) <= n
    THEN DurableCount(log, n, k + 1)
    ELSE k
Durable(a) == SubSeq(a.log, 1, DurableCount(a.log, Len(a.file), 0))

\* C13: after a crash between or inside appends, a Scan of the reopened
\* file (nothing appended since) hands the callback exactly the values
\* whose bytes are wholly in the file, in order, and returns an error
\* exactly when the file ends in a partial record.
C13_CrashReplay ==
    (alast.op = "Scan" /\ alast.pre.open /\ aof.crashed /\ Len(aof.log) = aof.atCrash) =>
        /\ SameValues(alast.visited, Durable(aof))
        /\ alast.ret # nil <=> Len(aof.file) > Len(aofMarshal(Durable(aof)).b)

\* C13 happens: the crash left whole values followed by a partial record,
\* and the reopened file was scanned.
C13_ScannedTornFile ==
    /\ alast.op = "Scan" /\ alast.pre.open /\ aof.crashed /\ Len(aof.log) = aof.atCrash
    /\ Len(alast.visited) >= 1
    /\ Len(aof.file) > Len(aofMarshal(Durable(aof)).b)
    /\ alast.ret = ErrUnexpectedEOF

\* ---------------------------------------------------------------- C14
\* C14: Close on an open handle returns nil and Close on a closed handle
\* returns the error "closed"; Append, AppendMulti and Scan on a closed
\* handle return an error and leave the file as it was.
C14_ClosedHandle ==
    /\ alast.op = "Close" =>
          /\ alast.pre.open => alast.ret = nil /\ ~aof.open
          /\ ~alast.pre.open => alast.ret = errorsNew("closed")
    /\ (alast.op \in {"Append", "AppendMulti", "Scan"} /\ ~alast.pre.open) =>
          /\ alast.ret # nil
          /\ alast.visited = <<>>
          /\ aof.file = alast.pre.file

\* C14 happens: an Append of a marshalable value on a closed handle whose
\* file holds values.
C14_AppendAfterClose ==
    /\ alast.op = "Append" /\ ~alast.pre.open
    /\ alast.pre.file # <<>>
    /\ alast.vals[1] \in LogValues

\* ---------------------------------------------------------------- C15
\* the log after Append(vals[i]); ...; Append(vals[K]) from the log a
RECURSIVE AppendEach(_, _, _)
AppendEach(a, vals, i) ==
    IF i > Len(vals) THEN a ELSE AppendEach(AOFAppend(a, vals[i]).a, vals, i + 1)

IntBody(in) == SubSeq(in.data, 2, Len(in.data) - 2)
\* an optional '-' followed by one or more decimal digits
IsDecimal(body) ==
    /\ body # <<>>
    /\ \A i \in 1..Len(body) : IsDigit(body[i]) \/ (i = 1 /\ body[i] = Minus)
    /\ \E i \in 1..Len(body) : IsDigit(body[i])

\* C16: ReadValue on a ':' line returns an Integer when the body is an
\* optional '-' and one or more digits, and otherwise fails with the
\* protocol error "invalid integer" and returns no Value.
C16_IntegerSyntax ==
    (input.cls = "integer" /\ calls = 1 /\ last.op = "ReadValue") =>
        IF IsDecimal(IntBody(input))
        THEN last.err = nil /\ last.val.typ = Colon
        ELSE last.err = errProtocol("invalid integer") /\ last.val = nullValue

\* what holds of the code: as C16, but a body without digits (empty, or a
\* lone '-') is read as the Integer 0
C16_IntegerSyntaxButNoDigits ==
    (input.cls = "integer" /\ calls = 1 /\ last.op = "ReadValue") =>
        IF IsDecimal(IntBody(input)) \/ IntBody(input) \in {<<>>, <<Minus>>}
        THEN last.err = nil /\ last.val.typ = Colon
        ELSE last.err = errProtocol("invalid integer") /\ last.val = nullValue

\* ---------------------------------------------------------------- C17
\* the line m without its terminator (CRLF or LF)
LineBody(m) ==
    IF Len(m) >= 2 /\ m[Len(m) - 1] = CR THEN SubSeq(m, 1, Len(m) - 2)
    ELSE SubSeq(m, 1, Len(m) - 1)
\* the words of body, which single spaces separate
RECURSIVE Words(_)
Words(body) ==
    IF \A i \in DOMAIN body : body[i] # Space THEN <<body>>
    ELSE LET i == CHOOSE j \in DOMAIN body :
                      body[j] = Space /\ \A h \in 1..(j - 1) : body[h] # Space
         IN  <<SubSeq(body, 1, i - 1)>> \o Words(SubSeq(body, i + 1, Len(body)))
\* the stream is inline command lines without quotes, read by successive
\* ReadMultiBulk calls
UnquotedLinesByMultiBulk ==
    /\ input.cls = "inline"
    /\ \A k \in DOMAIN input.msgs :
          /\ input.msgs[k] \in InlineLines
          /\ \A i \in DOMAIN input.msgs[k] : input.msgs[k][i] # Quote
    /\ last.op # "none"
    /\ \A i \in DOMAIN last.ops : last.ops[i] = "ReadMultiBulk"

\* C17: on a stream of unquoted inline command lines (words separated by
\* single spaces, ended by CRLF or LF) the k-th of successive ReadMultiBulk
\* calls returns, with the inline flag set, the non-null Array of one
\* BulkString per word of line k, and the call after the last line returns
\* io.EOF; so for every way the source hands out the bytes.
C17_UnquotedInlineLines ==
    UnquotedLinesByMultiBulk =>
        /\ Len(last.ops) <= Len(input.msgs) =>
              /\ AtMessage(last, Len(last.ops))
              /\ last.err = nil
              /\ last.telnet
              /\ ~IsNull(last.val)
              /\ ValueArray(last.val) =
                    [vals |-> [i \in DOMAIN Words(LineBody(input.msgs[Len(last.ops)])) |->
                                  StrValue(Dollar, Words(LineBody(input.msgs[Len(last.ops)]))[i], FALSE)],
                     isNil |-> FALSE]
        /\ Len(last.ops) > Len(input.msgs) => last.err = EOF

\* C17 happens: two lines were read by two calls and the third call
\* returned io.EOF.
C17_LinesThenEOF ==
    /\ UnquotedLinesByMultiBulk
    /\ Len(input.msgs) = 2
    /\ Len(last.ops) = 3
    /\ last.clean
    /\ last.err = EOF

\* ---------------------------------------------------------------- C18
\* out is the outcome of a ReadValue that decoded the message m, no earlier
\* call having failed
Decoded(out, m) ==
    /\ input.cls = "canonical"
    /\ out.op = "ReadValue"
    /\ out.ok
    /\ \E k \in DOMAIN input.msgs : AtMessage(out, k) /\ input.msgs[k] = m

NullDistinction(out) ==
    /\ Decoded(out, NullBulkMsg) =>
          /\ out.val.typ = Dollar /\ IsNull(out.val)
          /\ ValueBytes(out.val).isNil
          /\ MarshalRESP(out.val).b = NullBulkMsg
    /\ Decoded(out, BulkMsg(<<>>)) =>
          /\ out.val.typ = Dollar /\ ~IsNull(out.val)
          /\ ValueBytes(out.val) = [b |-> <<>>, isNil |-> FALSE]
          /\ MarshalRESP(out.val).b = BulkMsg(<<>>)
          /\ MarshalRESP(out.val).b # NullBulkMsg
    /\ Decoded(out, NullArrMsg) =>
          /\ out.val.typ = Star /\ IsNull(out.val)
          /\ ValueArray(out.val).isNil
          /\ MarshalRESP(out.val).b = NullArrMsg
    /\ Decoded(out, ArrMsg(<<>>)) =>
          /\ out.val.typ = Star /\ ~IsNull(out.val)
          /\ ValueArray(out.val) = [vals |-> <<>>, isNil |-> FALSE]
          /\ MarshalRESP(out.val).b = ArrMsg(<<>>)
          /\ MarshalRESP(out.val).b # NullArrMsg

\* C18: a decoded $-1 is null and its Bytes() is nil, a decoded $0 is not
\* null and its Bytes() is a present empty slice; a decoded *-1 has a nil
\* Array(), a decoded *0 a present empty one; each marshals back to its
\* own message, so the members of a pair marshal differently.  So for the
\* Reader however the source hands out the bytes, when the read succeeds.
C18_NullDistinction == NullDistinction(last) /\ NullDistinction(refLast)

\* C18 happens: a zero-length BulkString was decoded.
C18_DecodedEmptyBulk == Decoded(last, BulkMsg(<<>>)) /\ ~ValueBytes(last.val).isNil

\* ---------------------------------------------------------------- C19
\* C19: when both Values marshal, a.Equals(b) is true exactly when their
\* MarshalRESP bytes are the same, however they were built (BoolValue(true)
\* and IntegerValue(1), StringValue(s) and BytesValue(s)); a.Equals(b) is
\* b.Equals(a); and v.Equals(v) holds for every Value the decoder returned.
C19_EqualsIsMarshalEquality ==
    cmp.op = "Equals" =>
        /\ (MarshalRESP(cmp.a.v).err = nil /\ MarshalRESP(cmp.b.v).err = nil) =>
              (cmp.eq <=> MarshalRESP(cmp.a.v).b = MarshalRESP(cmp.b.v).b)
        /\ cmp.eq = cmp.qe
        /\ (cmp.a.how = "decoded" /\ cmp.a = cmp.b) => cmp.eq
        /\ (cmp.a.how = "BoolValue" /\ cmp.b.how = "IntegerValue" /\ cmp.a.arg = cmp.b.arg)
              => cmp.eq
        /\ (cmp.a.how = "StringValue" /\ cmp.b.how \in {"BytesValue", "BytesValue(nil)"}
              /\ cmp.a.arg = cmp.b.arg) => cmp.eq

\* C19 happens: two Values that differ as structures were found equal.
C19_EqualThoughBuiltApart ==
    /\ cmp.op = "Equals"
    /\ cmp.a.how = "StringValue" /\ cmp.b.how = "BytesValue(nil)"
    /\ cmp.a.v # cmp.b.v
    /\ cmp.eq

\* ---------------------------------------------------------------- C20
\* C20: MarshalRESP of a Value built by a construction helper succeeds and
\* returns the wire form of that Value: prefix, text, CRLF for a
\* SimpleString or Error; ':', the decimal integer, CRLF; $-1 CRLF for the
\* null BulkString; '$', the decimal length, CRLF, the bytes, CRLF; *-1 CRLF
\* for a null Array; '*', the decimal count, CRLF and the elements' forms in
\* order.
C20_MarshalForm ==
    (cmp.op = "MarshalRESP" /\ cmp.a.want # <<>>) =>
        /\ cmp.m.err = nil
        /\ cmp.m.b = cmp.a.want

\* C20 happens: an Array of BulkStrings built by MultiBulkValue was
\* marshalled.
C20_MarshalledMultiBulk ==
    /\ cmp.op = "MarshalRESP"
    /\ cmp.a.how = "MultiBulkValue"
    /\ cmp.m.b = cmp.a.want

\* ---------------------------------------------------------------- C21
\* C21: a log handle has at most one background flush task that is not
\* yet gone, however often the policy every second is set or left; when
\* Close has returned every task is gone, and no task has touched the file
\* since.
C21_OneFlusherJoinedByClose ==
    /\ Cardinality(Live(th.bg)) <= 1
    /\ th.returned => joined(th.bg)
    /\ ~th.late
    /\ ~aof.open => \A i \in DOMAIN th.bg : th.bg[i].pc # "fired" \/ th.bg[i].cancelled

\* C21 happens: the policy every second was set, left and set again, bytes
\* were appended, and Close returned.
C21_ClosedAfterRestart ==
    /\ th.returned
    /\ Len(th.bg) >= 2
    /\ aof.file # <<>>
    /\ th.fg = "closed"

\* ---------------------------------------------------------------- C22
\* C22: when Append or AppendMulti returns nil on a handle whose policy is
\* always, every byte of the file, the appended ones included, is flushed;
\* and a crash never leaves less in the file than what was flushed.
C22_AlwaysIsDurable ==
    /\ (alast.op \in {"Append", "AppendMulti"} /\ alast.ret = nil
            /\ alast.pre.policy = "always") =>
          /\ aof.file = alast.pre.file \o aofMarshal(alast.vals).b
          /\ aof.synced = Len(aof.file)
    /\ alast.op = "crash" =>
          /\ Len(aof.file) >= alast.pre.synced
          /\ aof.file = SubSeq(alast.pre.file \o aofMarshal(alast.vals).b, 1, Len(aof.file))

\* C22 happens: a value was appended under always, and the crash that
\* followed kept all of it.
C22_CrashAfterAlwaysAppend ==
    /\ alast.op = "crash" /\ alast.vals = <<>>
    /\ alast.pre.policy = "always"
    /\ alast.pre.synced = Len(alast.pre.file) /\ alast.pre.synced > 0
    /\ aof.file = alast.pre.file

\* under never and every second, a nil return promises no such thing: the
\* appended bytes are not flushed yet
C22_ReturnedUnflushed ==
    /\ alast.op \in {"Append", "AppendMulti"} /\ alast.ret = nil
    /\ alast.pre.policy \in {"never", "every second"}
    /\ aof.synced < Len(alast.pre.file) /\ aof.file # alast.pre.file
\* ... and a crash then loses bytes of an append that had returned nil
C22_CrashLosesUnflushed ==
    /\ alast.op = "crash" /\ alast.vals = <<>>
    /\ alast.pre.policy \in {"never", "every second"}
    /\ Len(aof.file) < Len(alast.pre.file)

\* ---------------------------------------------------------------- C23
\* C23: as long as the sink has refused no Write, it holds exactly the
\* marshaled forms of the values written, concatenated in call order, and
\* has seen one Write per operation; the operation just made handed it the
\* whole marshaled value in that one Write (an operation whose value
\* cannot be marshaled returns the error and writes nothing).
C23_SinkHoldsConcatenation ==
    ~wlast.refused =>
        /\ wr.wr.out = wlast.sum
        /\ wr.wr.writes = wlast.marshalled
        /\ wlast.wrote =>
              /\ wlast.ret = nil
              /\ Len(wlast.b) > 0
              /\ wr.wr.out = SubSeq(wr.wr.out, 1, Len(wr.wr.out) - Len(wlast.b)) \o wlast.b
        /\ (wlast.op # "none" /\ ~wlast.wrote) => wlast.ret # nil

\* C23 happens: two operations went through, the second an array written
\* after something else.
C23_TwoWritesAccepted ==
    /\ ~wlast.refused /\ wlast.marshalled = 2
    /\ wlast.op = "WriteArray" /\ wlast.wrote
    /\ Len(wr.wr.out) > Len(wlast.b) /\ Len(wlast.b) > 5

\* ---------------------------------------------------------------- C24
\* C24: Integer() returns the integer of an Integer Value and otherwise
\* converts the string form: as a base-10 integer, else as a decimal
\* float truncated toward zero ("12.7" gives 12, "-3.9" gives -3), else 0;
\* Bool() is true exactly when Integer() is nonzero.
C24_IntegerThenFloat ==
    cmp.op = "Integer" =>
        /\ cmp.int = cmp.a.want
        /\ cmp.bool <=> cmp.int # I64Zero

\* what holds instead: a string form that is no base-10 integer gives 0,
\* a decimal fraction included
C24_IntegerOrZero ==
    cmp.op = "Integer" =>
        /\ cmp.int = (IF cmp.a.v.typ = Colon THEN cmp.a.v.integer
                      ELSE IF ParseInt(ValueString(cmp.a.v)).err = "nil" THEN cmp.a.want
                      ELSE I64Zero)
        /\ cmp.bool <=> cmp.int # I64Zero

\* ---------------------------------------------------------------- C25
\* C25: the bytes of every slice the Reader has handed out (the payload of
\* each SimpleString, Error and BulkString returned, alone or as an array
\* element) stay what they were: whatever the calls made since did to
\* rd.buf (a refill, an append, a byte pushed back, a failure), the array
\* the slice lies in still holds the same bytes between its bounds.
C25_ReturnedBytesKept ==
    \A i \in DOMAIN rd.lent :
        rd.lent[i].gen = rd.gen =>
            BufSlice(rd.buf, rd.lent[i].lo, rd.lent[i].hi) = rd.lent[i].bytes

\* C25 happens: a payload was returned, and a later call appended to the
\* array it lies in.
C25_BufferExtendedSinceReturn ==
    /\ calls >= 2
    /\ \E i \in DOMAIN rd.lent :
          /\ rd.lent[i].gen = rd.gen /\ rd.lent[i].bytes # <<>>
          /\ BufLen(rd.buf) > rd.lent[i].len

\* ... a later call pushed a byte back into the array it lies in
C25_PushedBackSinceReturn ==
    /\ calls >= 2 /\ last.inline
    /\ \E i \in DOMAIN rd.lent :
          i < Len(rd.lent) /\ rd.lent[i].gen = rd.gen /\ rd.lent[i].bytes # <<>>
\* ... a later call failed, or the Reader went on to a new array
C25_FailedSinceReturn ==
    /\ calls >= 2 /\ last.err # nil
    /\ \E i \in DOMAIN rd.lent : rd.lent[i].bytes # <<>>
C25_RefilledSinceReturn ==
    /\ calls >= 2 /\ Len(rd.lent) >= 1 /\ rd.lent[1].bytes # <<>> /\ rd.lent[1].gen < rd.gen

\* ---------------------------------------------------------------- C26
\* what C26 says of the outcome out of the k-th ReadValue on a bulk input
\* (header h, payload p, ending e, next message): the first read returns
\* the null BulkString for a negative length and has consumed the header
\* only; otherwise it returns the BulkString p when e is CRLF and fails
\* with "invalid bulk line ending" when it is not; the second read, after
\* a good first one, returns the next message whole.
BulkOutcome(out, k, h, p, e, next) ==
    /\ (k = 1 /\ p = <<>> /\ e = <<>>) =>
          out.err = nil /\ out.val = NullValue /\ out.n = Len(h)
    /\ (k = 1 /\ e = CRLF) =>
          out.err = nil /\ out.val = StringValue(p) /\ out.n = Len(h) + Len(p) + 2
    /\ (k = 1 /\ e \notin {<<>>, CRLF}) =>
          out.err = errProtocol("invalid bulk line ending") /\ out.val = nullValue
    /\ (k = 2 /\ e \in {<<>>, CRLF}) =>
          /\ out.err = nil /\ out.n = Len(next) /\ out.start = Len(h) + Len(p) + Len(e)
          /\ out.val \in {IntegerValue(IntOf(7)), StringValue(ChA)}

\* C26: a BulkString's payload is the L bytes after the header whatever
\* they are, the two bytes after it must be CR LF ("invalid bulk line
\* ending" otherwise), the next read starts right after them, and a
\* negative length gives the null BulkString and consumes the header only.
C26_BulkBinarySafe ==
    (input.cls = "bulk" /\ calls \in {1, 2} /\ OnlyReadValue(last)) =>
        BulkOutcome(last, calls, input.msgs[1], input.msgs[2], input.msgs[3], input.msgs[4])

\* the same of a Reader whose source delivers the stream in one piece
C26_BulkBinarySafeInOnePiece ==
    (input.cls = "bulk" /\ calls \in {1, 2} /\ OnlyReadValue(refLast)) =>
        BulkOutcome(refLast, calls, input.msgs[1], input.msgs[2], input.msgs[3], input.msgs[4])
C26_BinaryPayloadThenNext ==
    /\ input.cls = "bulk" /\ calls = 2 /\ OnlyReadValue(refLast)
    /\ input.msgs[2] = <<0, 255>> /\ refLast.err = nil /\ refLast.val = IntegerValue(IntOf(7))

\* ---------------------------------------------------------------- C27
\* the message b is one line: CR and LF are its last two bytes and occur
\* nowhere before them
SingleLine(b) ==
    /\ Len(b) >= 3
    /\ SubSeq(b, Len(b) - 1, Len(b)) = CRLF
    /\ \A i \in 1..(Len(b) - 2) : b[i] # CR /\ b[i] # LF
\* ReadValue on the message b returns one Value of the kind b begins with
\* and has then read all of b
ReadsBackAsOne(b) ==
    LET x == ReaderReadValue(NewReader(NewSource(b, bufsz)))
    IN  x.err = nil /\ x.val.typ = b[1] /\ x.n = Len(b)

\* C27: a SimpleString or Error message the Writer emits holds CR and LF
\* only as its final CRLF, whatever the text given, and reads back as one
\* Value of the same kind.
C27_EmittedSingleLine ==
    (wlast.wrote /\ wlast.werr = nil /\ wlast.b[1] \in {Plus, Minus}) =>
        SingleLine(wlast.b) /\ ReadsBackAsOne(wlast.b)

\* the same of SimpleString messages alone
C27_SimpleStringSingleLine ==
    (wlast.wrote /\ wlast.werr = nil /\ wlast.b[1] = Plus) =>
        SingleLine(wlast.b) /\ ReadsBackAsOne(wlast.b)
C27_SimpleStringOfTwoLines ==
    /\ wlast.wrote /\ wlast.werr = nil /\ wlast.op = "WriteSimpleString"
    /\ wlast.b = Line(Plus, ChA \o <<Space, Space>> \o ChB)

\* ---------------------------------------------------------------- C28
\* C28: the Reader never calls Read again once Read has returned an error;
\* a call that begins with that error stored and nothing left in the
\* buffer returns the error with n = 0 and no Value; what the source
\* delivered before or along with the error is decoded first (a canonical
\* stream delivered in one piece, and a stream of Integers delivered in
\* pieces, is read message by message); and once a call has returned
\* io.EOF, so does every later one.
C28_NoReadAfterError ==
    /\ ~rd.rd.again /\ ~ref.rd.again
    /\ (last.op # "none" /\ last.rerr0 # nil /\ last.l0 <= 0) =>
          last.err = last.rerr0 /\ last.n = 0 /\ last.val = nullValue
    /\ (last.op # "none" /\ last.perr = EOF) => last.err = EOF /\ last.n = 0
    /\ (input.cls = "canonical" /\ refLast.op # "none" /\ OnlyReadValue(refLast)
            /\ calls <= Len(input.msgs)) =>
          refLast.err = nil /\ refLast.n = Len(input.msgs[calls])
    /\ (input.cls = "canonical" /\ last.op # "none" /\ OnlyReadValue(last)
            /\ calls <= Len(input.msgs) /\ \A k \in DOMAIN input.msgs : input.msgs[k][1] = Colon) =>
          last.err = nil /\ last.n = Len(input.msgs[calls])
    /\ (rd.rerr # nil => rd.rd.ended) /\ (rd.rd.ended => rd.rerr = rd.rd.fail)

\* C28 happens: the source returned its error together with the last
\* bytes, two messages were decoded from them, and the call after
\* returned that error with n = 0.
C28_ErrorAfterBufferedValues ==
    /\ calls = 3 /\ Len(input.msgs) = 2 /\ input.cls = "canonical"
    /\ ref.rd.early /\ ref.rd.fail = ErrClosedPipe /\ ref.rd.reads = 1
    /\ refLast.clean /\ refLast.err = ErrClosedPipe /\ refLast.n = 0
    /\ last.err = ErrClosedPipe /\ last.n = 0 /\ last.rerr0 = ErrClosedPipe

\* ---------------------------------------------------------------- C29
\* what C29 says of the outcome out of the first read of an array that
\* holds, at some depth, an element with a leading byte that is no type
\* prefix: no Value, no inline parsing, and the protocol error "unknown
\* first byte" (ReadValue) or "expected '$', got" that byte (ReadMultiBulk)
NestedUnknownByte(out) ==
    /\ out.val = nullValue
    /\ ~out.inline /\ ~out.telnet
    /\ IsErrProtocol(out.err)
    /\ out.op = "ReadValue" => out.err = errProtocol("unknown first byte")
    /\ out.op = "ReadMultiBulk" => out.err \in {errExpectedDollar(c) : c \in {79, 83}}

\* C29: an array element, at any depth, whose leading byte is none of the
\* five type prefixes makes ReadValue and ReadMultiBulk fail with that
\* protocol error; it is never parsed as an inline line and the inline
\* flag is false.
C29_NestedUnknownByte ==
    (input.cls = "malformed" /\ calls = 1) => NestedUnknownByte(last)

\* the same of a Reader whose source delivers the stream in one piece
C29_NestedUnknownByteInOnePiece ==
    (input.cls = "malformed" /\ calls = 1) => NestedUnknownByte(refLast)
C29_FailedAtDepth ==
    /\ input.cls = "malformed" /\ calls = 1 /\ refLast.op = "ReadMultiBulk"
    /\ refLast.err = errExpectedDollar(83) /\ refLast.n > 20

\* ---------------------------------------------------------------- C30
RECURSIVE UnknownTag(_)
\* v, or an element at some depth of v when v is a non-null Array, has a
\* tag that is none of the five kinds, v not being the zero-tag null Value
UnknownTag(v) ==
    \/ v.typ \notin {Plus, Minus, Colon, Dollar, Star} /\ ~(v.typ = 0 /\ v.null)
    \/ v.typ = Star /\ ~v.null /\ \E i \in DOMAIN v.array : UnknownTag(v.array[i])

\* C30: MarshalRESP returns an error exactly for a Value with an unknown
\* tag, in itself or inside a non-null Array, and the error is "unknown
\* resp type encountered"; a Value that ReadValue or ReadMultiBulk returned
\* marshals without error.
C30_MarshalRefusesUnknownTags ==
    cmp.op = "MarshalRESP" =>
        /\ cmp.m.err # nil <=> UnknownTag(cmp.a.v)
        /\ cmp.m.err # nil =>
              cmp.m.err = errorsNew("unknown resp type encountered") /\ cmp.m.b = <<>>
        /\ cmp.a.how = "decoded" => cmp.m.err = nil

\* C30 happens: a Value of unknown tag two arrays deep was refused.
C30_RefusedAtDepth ==
    /\ cmp.op = "MarshalRESP" /\ cmp.m.err # nil
    /\ cmp.a.v.typ = Star /\ Len(cmp.a.v.array) = 1 /\ cmp.a.v.array[1].typ = Star
    /\ ~UnknownTag(cmp.a.v.array[1].array[1])

\* the Values the Reader returns from a source that delivers in pieces
\* marshal too
C30_ReadValuesMarshal ==
    (last.op # "none" /\ last.err = nil) =>
        MarshalRESP(last.val).err = nil /\ ~UnknownTag(last.val)

====
